---- MODULE Spec2Model ----
(***************************************************************************)
(* A state-machine model of the rewriting forward proxy:                   *)
(*   - the hybrid memory + disk resource cache (proxy/resourceCache.js),   *)
(*   - the fetch orchestrator (proxy/fetcher.js),                          *)
(*   - the target validators (validator.js, proxy/config.js,               *)
(*     proxy/sanitize.js),                                                 *)
(*   - the /proxy and /resource request handlers (server.js,               *)
(*     proxyMiddleware.js).                                                *)
(* Each component has its own specification over the shared variables;     *)
(* the variables of the other components stay at their initial values.     *)
(***************************************************************************)
EXTENDS Integers, Sequences, FiniteSets, TLC

VARIABLES
  now,          \* Date.now(), in ms
  \* ---- resource cache
  cacheMap,     \* the Map key -> {value, size, expiresAt}, in insertion order
  currentBytes, \* the tracked byte total
  disk,         \* CACHE_DIR: key -> the "data" of the persisted payload, or NoFile
  writes,       \* writeFile calls of persistToDisk still in flight
  calls,        \* get/del calls suspended at an await (disk read, unlink)
  nextSweep,    \* the time from which the setInterval sweep may fire next
  ret,          \* the call that returned last and what it returned
  setLog,       \* history: per key, the value of its last set and when its ttl runs out
  recency,      \* history: keys by their last successful read or write, oldest first
  deleted,      \* history: del(k)/clear() completed and no set(k) was called since
  ops,          \* history: the number of get/set/del/clear calls made so far
  \* ---- one call of fetchText or streamToResponse
  fMode,        \* "text" (fetchText) or "stream" (streamToResponse)
  retries,      \* opts.retries, or DEFAULT_RETRIES
  timeout,      \* opts.timeout, or DEFAULT_TIMEOUT
  useCache,     \* the cache is consulted first
  attempt,      \* the loop counter
  lastErr,      \* the error kept for the final throw
  fpc,          \* where the call stands: idle, cache, inflight, sleeping,
                \* streaming, done
  timer,        \* the pending sleep(ms): when it was set and for how long
  deadline,     \* when the abort timer of the attempt in flight is due
  log,          \* history: what the upstream answered to each attempt
  result,       \* how the call ended: resolved, rejected or returned
  sink,         \* the Express response: status, headers, what was sent, ended
  fCache,       \* what resourceCache.get resolves to, per cache key of the url
  cacheLog,     \* history: the resourceCache calls the fetch call has made
  upHeaders,    \* the header names of the upstream response being streamed
  \* ---- one target put through a validator
  vUrl,         \* the target
  vRes,         \* the validator applied last and what it answered
  \* ---- one request to /proxy or /resource
  ppc,          \* where the handler stands
  pRoute,       \* "proxy" or "resource"
  pTarget,      \* req.query.url
  pValidated,   \* history: validateUrl and isLocalAddress let the target pass
  pFetched,     \* history: proxyMiddleware called fetch(targetUrl)
  pStatus,      \* the status the client got (0: none yet)
  pThrottled,   \* the throttler found the key blocked and sent the 429
  pSends,       \* the number of res.send calls made for the request
  \* checkHostAllowed (src/proxy/security.js)
  sHost,        \* the hostname checkHostAllowed was called with
  sDns,         \* what the resolver answers for that hostname
  spc,          \* where the call is: "idle", "lookup", "done"
  sRet,         \* what the call resolved to
  \* inlineImports (cssParser.js, in src/unnamed/part_000)
  cssSheets,    \* what fetcherFn resolves to, per stylesheet name
  cssStack,     \* the inlineImports calls in progress, the innermost last
  lastIndex,    \* IMPORT_REGEX.lastIndex, shared by every call
  cssFetches,   \* history: the number of fetcherFn calls
  cssFailed,    \* history: a fetcherFn call has rejected
  cssPc,        \* "idle", "running", "returned"
  cssOut,       \* what the outermost call resolved to
  \* rewriteHtml, rewriteCss (src/proxy/rewrite.js)
  rwIn,         \* what the rewriter was given
  rwOut,        \* what it returned
  \* the capture branch of streamToResponse (src/proxy/fetcher.js)
  capBody,      \* the chunks the upstream body will deliver
  capNext,      \* the index of the next chunk to arrive
  capturedLen,  \* capturedLen
  capturedChunks, \* captured: the chunks kept for the cache
  capSink,      \* the chunks written to res, and whether res was ended
  capStored,    \* the body given to resourceCache.set, if any
  capPc,        \* "idle", "streaming", "ended", "failed"
  \* throttlerMiddleware (throttler.js, in src/unnamed/part_003)
  rateMap,      \* RATE_LIMIT_MAP: the entry of each key
  thrLast,      \* what the middleware did with the last request
  reqTimes,     \* history: per key, the times of the requests it counted
  thrReqs       \* history: the number of requests made

cacheVars == <<cacheMap, currentBytes, disk, writes, calls, nextSweep, ret,
               setLog, recency, deleted, ops>>

fetchVars == <<fMode, retries, timeout, useCache, attempt, lastErr, fpc, timer,
               deadline, log, result, sink, fCache, cacheLog, upHeaders>>

valVars == <<vUrl, vRes>>

pipeVars == <<ppc, pRoute, pTarget, pValidated, pFetched, pStatus, pThrottled,
              pSends>>

secVars == <<sHost, sDns, spc, sRet>>

\* the components that stand beside the proxy's request path
cssVars == <<cssSheets, cssStack, lastIndex, cssFetches, cssFailed, cssPc,
             cssOut>>

rwVars == <<rwIn, rwOut>>

capVars == <<capBody, capNext, capturedLen, capturedChunks, capSink, capStored, capPc>>

thrVars == <<rateMap, thrLast, reqTimes, thrReqs>>

auxVars == <<secVars, cssVars, rwVars, capVars, thrVars>>

\* the request path: what a step of a component beside it leaves alone
coreVars == <<now, cacheVars, fetchVars, valVars, pipeVars>>

vars == <<now, cacheVars, fetchVars, valVars, pipeVars, auxVars>>

\* what a step of the cache leaves alone
nonCacheVars == <<fetchVars, valVars, pipeVars, auxVars>>
\* what a step of a fetch leaves alone
nonFetchVars == <<cacheVars, valVars, pipeVars, auxVars>>
\* what the application of a validator leaves alone
nonValVars == <<cacheVars, fetchVars, pipeVars, auxVars>>

(***************************************************************************)
(* RESOURCE CACHE                                                          *)
(***************************************************************************)

\* Bounds of the cache model.
MaxTicks == 2     \* the clock runs to MaxTicks * TickMs
MaxSlots == 1     \* get/del calls suspended at the same time
MaxWrites == 1    \* disk writes in flight at the same time
MaxItems == 2     \* DEFAULT_MAX_ITEMS (500 in the source), scaled down
MaxOps == 4       \* get/set/del/clear calls in one run

DEFAULT_MAX_BYTES == 52428800
DEFAULT_SWEEP_INTERVAL == 60000
TickMs == DEFAULT_SWEEP_INTERVAL \div 2    \* the clock advances in half sweep intervals
MAX_PERSIST_BYTES == 1048576
\* JSON.stringify({value, meta: {ttl, storedAt}}) adds about this many bytes
\* to the length of a string value
WrapOverhead == 58

KeyOrder == <<"k1", "k2", "k3">>
Keys == {KeyOrder[i] : i \in 1..Len(KeyOrder)}
KeyInputs == Keys \cup {""}          \* "" is a falsy key
\* "a", "b": one byte; "H": 60 MB (above the persistence ceiling and the
\* memory ceiling)
Values == {"a", "b", "H"}
TTLs == {30000}

ByteLength(v) ==
  CASE v = "a" -> 1
    [] v = "b" -> 1
    [] v = "H" -> 60000000

\* Values as the cache sees them: null, a value given to set, or the object
\* {value, meta: {ttl, storedAt}} that set hands to persistToDisk.
Absent == [kind |-> "absent"]
Plain(v) == [kind |-> "plain", v |-> v]
\* (ts and meta.storedAt are written and never read: they are left out)
Wrapped(v, ttl) == [kind |-> "wrapped", v |-> v, ttl |-> ttl]

NoFile == [kind |-> "nofile"]
NoSet == [v |-> "", exp |-> -1]
Idle == [op |-> "idle"]

estimateSize(obj) ==
  CASE obj.kind = "absent" -> 0
    [] obj.kind = "plain" -> ByteLength(obj.v)
    [] obj.kind = "wrapped" -> ByteLength(obj.v) + WrapOverhead

\* ---- the Map, as a sequence of entries in insertion order
MapKeys(m) == {m[i].key : i \in 1..Len(m)}
MapHas(m, k) == k \in MapKeys(m)
MapGet(m, k) == m[CHOOSE i \in 1..Len(m) : m[i].key = k]
\* no entry is removed
MapKeepAll(m, k) == m
MapDelete(m, k) == SelectSeq(m, LAMBDA e : e.key # k)
\* Map.prototype.set: a present key keeps its position, a new key goes last
MapSet(m, k, e) ==
  IF MapHas(m, k)
    THEN [i \in 1..Len(m) |-> IF m[i].key = k THEN e ELSE m[i]]
    ELSE Append(m, e)

Entry(k, value, size, expiresAt) ==
  [key |-> k, value |-> value, size |-> size, expiresAt |-> expiresAt]

touchKey(m, k) ==
  IF ~MapHas(m, k) THEN m
  ELSE Append(MapDelete(m, k), MapGet(m, k))

\* nothing is evicted
evictNothing(m, bytes) == [map |-> m, bytes |-> bytes]
RECURSIVE evictIfNeeded(_, _)
evictIfNeeded(m, bytes) ==
  IF (Len(m) > MaxItems \/ bytes > DEFAULT_MAX_BYTES) /\ Len(m) > 0
    THEN evictIfNeeded(Tail(m), bytes - Head(m).size)
    ELSE [map |-> m, bytes |-> bytes]

\* no entry ever counts as expired
NeverExpired(e, t) == FALSE
Expired(e, t) == e.expiresAt # 0 /\ e.expiresAt < t

\* ---- history helpers
Touch(r, k) == Append(SelectSeq(r, LAMBDA x : x # k), k)
Returned(op, k, val, via, stale) ==
  [op |-> op, key |-> k, val |-> val, via |-> via, stale |-> stale]
\* nothing to report: the last step was no get and no set
NoReturn == [op |-> "other", key |-> "", val |-> Absent, via |-> "none", stale |-> FALSE]
\* the time-to-live given to the last set of k has elapsed
Stale(k) == setLog[k] # NoSet /\ now > setLog[k].exp
\* keys are interchangeable: a key is first used after the keys before it
Used == {k \in Keys : setLog[k] # NoSet}
NextUnused ==
  {KeyOrder[i] : i \in {n \in 1..Len(KeyOrder) :
     /\ KeyOrder[n] \notin Used
     /\ \A m \in 1..(n - 1) : KeyOrder[m] \in Used}}
KeyChoices == {""} \cup Used \cup NextUnused
\* the one-byte values are interchangeable too: "b" is a value that differs
\* from one stored before
ValueChoices == IF Used = {} THEN Values \ {"b"} ELSE Values

FreeSlots == {s \in 1..MaxSlots : calls[s] = Idle}
FirstFree == CHOOSE s \in FreeSlots : \A t \in FreeSlots : s <= t

CacheInit ==
  /\ cacheMap = <<>>
  /\ currentBytes = 0
  /\ disk = [k \in Keys |-> NoFile]
  /\ writes = {}
  /\ calls = [s \in 1..MaxSlots |-> Idle]
  /\ nextSweep = DEFAULT_SWEEP_INTERVAL
  /\ ret = NoReturn
  /\ setLog = [k \in Keys |-> NoSet]
  /\ recency = <<>>
  /\ deleted = [k \in Keys |-> FALSE]
  /\ ops = 0

\* get(key), up to its first await or its return
GetStart(k) ==
  /\ ops < MaxOps /\ ops' = ops + 1
  /\ k \in KeyInputs
  /\ IF k = ""
       THEN /\ ret' = Returned("get", k, Absent, "none", FALSE)
            /\ UNCHANGED <<cacheMap, currentBytes, calls, recency>>
     ELSE IF MapHas(cacheMap, k)
       THEN LET entry == MapGet(cacheMap, k) IN
            IF Expired(entry, now)
              THEN \* expired: drop from memory, await removeFromDisk
                   /\ FreeSlots # {}
                   /\ cacheMap' = MapDelete(cacheMap, k)
                   /\ currentBytes' = currentBytes - entry.size
                   /\ calls' = [calls EXCEPT ![FirstFree] =
                        [op |-> "get", key |-> k, stage |-> "unlinking",
                         data |-> Absent, stale |-> Stale(k)]]
                   /\ ret' = Returned("getWait", k, Absent, "mem", Stale(k))
                   /\ UNCHANGED recency
              ELSE /\ cacheMap' = touchKey(cacheMap, k)
                   /\ ret' = Returned("get", k, entry.value, "mem", Stale(k))
                   /\ recency' = Touch(recency, k)
                   /\ UNCHANGED <<currentBytes, calls>>
       ELSE \* await loadFromDisk(key)
            /\ FreeSlots # {}
            /\ calls' = [calls EXCEPT ![FirstFree] =
                 [op |-> "get", key |-> k, stage |-> "reading",
                  data |-> Absent, stale |-> Stale(k)]]
            /\ ret' = Returned("getWait", k, Absent, "disk", Stale(k))
            /\ UNCHANGED <<cacheMap, currentBytes, recency>>
  /\ UNCHANGED nonCacheVars
  /\ UNCHANGED <<now, disk, writes, nextSweep, setLog, deleted>>

\* loadFromDisk: readFile and JSON.parse run; the promise resolves to
\* parsed.data, or to null when the file is missing
DiskRead(s) ==
  /\ calls[s] # Idle
  /\ calls[s].op = "get" /\ calls[s].stage = "reading"
  /\ calls' = [calls EXCEPT ![s].stage = "loaded",
                            ![s].data = IF disk[calls[s].key] = NoFile
                                          THEN Absent
                                          ELSE disk[calls[s].key]]
  /\ UNCHANGED nonCacheVars
  /\ UNCHANGED <<now, ops, cacheMap, currentBytes, disk, writes, nextSweep, ret,
                 setLog, recency, deleted>>

\* get(key), from the resolution of loadFromDisk to its return
GetResume(s) ==
  /\ calls[s] # Idle
  /\ calls[s].op = "get" /\ calls[s].stage = "loaded"
  /\ LET k == calls[s].key
         diskVal == calls[s].data
         size == estimateSize(diskVal)
         ev == evictIfNeeded(MapSet(cacheMap, k, Entry(k, diskVal, size, 0)),
                             currentBytes + size)
     IN IF diskVal # Absent
          THEN /\ cacheMap' = ev.map
               /\ currentBytes' = ev.bytes
               /\ recency' = Touch(recency, k)
               /\ ret' = Returned("get", k, diskVal, "disk", calls[s].stale)
          ELSE /\ ret' = Returned("get", k, Absent, "disk", calls[s].stale)
               /\ UNCHANGED <<cacheMap, currentBytes, recency>>
  /\ calls' = [calls EXCEPT ![s] = Idle]
  /\ UNCHANGED nonCacheVars
  /\ UNCHANGED <<now, ops, disk, writes, nextSweep, setLog, deleted>>

\* set(key, value, ttlMs); persistToDisk is called and not awaited
Set(k, v, ttlMs) ==
  /\ ops < MaxOps /\ ops' = ops + 1
  /\ k \in KeyInputs /\ v \in Values /\ ttlMs \in TTLs
  /\ IF k = ""
       THEN /\ ret' = Returned("set", k, Absent, "none", FALSE)
            /\ UNCHANGED <<cacheMap, currentBytes, writes, setLog, recency, deleted, calls>>
       ELSE LET value == Plain(v)
                size == estimateSize(value)
                expiresAt == IF ttlMs # 0 THEN now + ttlMs ELSE 0
                bytes0 == IF MapHas(cacheMap, k)
                            THEN currentBytes - MapGet(cacheMap, k).size
                            ELSE currentBytes
                ev == evictIfNeeded(
                        Append(MapDelete(cacheMap, k), Entry(k, value, size, expiresAt)),
                        bytes0 + size)
                w == [key |-> k, data |-> Wrapped(v, ttlMs)]
            IN /\ cacheMap' = ev.map
               /\ currentBytes' = ev.bytes
               /\ IF size <= MAX_PERSIST_BYTES
                    THEN /\ Cardinality(writes \cup {w}) <= MaxWrites
                         /\ writes' = writes \cup {w}
                    ELSE UNCHANGED writes
               /\ ret' = Returned("set", k, value, "none", FALSE)
               /\ setLog' = [setLog EXCEPT ![k] = [v |-> v, exp |-> now + ttlMs]]
               /\ calls' = [s \in 1..MaxSlots |->
                    IF calls[s] # Idle /\ calls[s].key = k
                      THEN [calls[s] EXCEPT !.stale = FALSE] ELSE calls[s]]
               /\ recency' = Touch(recency, k)
               /\ deleted' = [deleted EXCEPT ![k] = FALSE]
  /\ UNCHANGED nonCacheVars
  /\ UNCHANGED <<now, disk, nextSweep>>

\* persistToDisk: the writeFile completes
WriteDone(w) ==
  /\ w \in writes
  /\ disk' = [disk EXCEPT ![w.key] = w.data]
  /\ writes' = writes \ {w}
  /\ UNCHANGED nonCacheVars
  /\ UNCHANGED <<now, ops, cacheMap, currentBytes, calls, nextSweep, ret, setLog,
                 recency, deleted>>

\* persistToDisk: the writeFile fails; the failure is ignored
WriteFail(w) ==
  /\ w \in writes
  /\ writes' = writes \ {w}
  /\ UNCHANGED nonCacheVars
  /\ UNCHANGED <<now, ops, cacheMap, currentBytes, disk, calls, nextSweep, ret,
                 setLog, recency, deleted>>

\* del(key), up to await removeFromDisk(key)
DelStart(k) ==
  /\ ops < MaxOps /\ ops' = ops + 1
  /\ k \in KeyInputs
  /\ IF k = ""
       THEN /\ ret' = NoReturn
            /\ UNCHANGED <<cacheMap, currentBytes, calls>>
       ELSE /\ FreeSlots # {}
            /\ cacheMap' = MapDelete(cacheMap, k)
            /\ currentBytes' = IF MapHas(cacheMap, k)
                                 THEN currentBytes - MapGet(cacheMap, k).size
                                 ELSE currentBytes
            /\ calls' = [calls EXCEPT ![FirstFree] =
                 [op |-> "del", key |-> k, stage |-> "unlinking",
                  data |-> Absent, stale |-> Stale(k)]]
            /\ ret' = NoReturn
  /\ UNCHANGED nonCacheVars
  /\ UNCHANGED <<now, disk, writes, nextSweep, setLog, recency, deleted>>

\* removeFromDisk: the unlink runs (a missing file is ignored) and the call
\* awaiting it returns: del returns true, the get of an expired entry null
UnlinkDone(s) ==
  /\ calls[s] # Idle
  /\ calls[s].stage = "unlinking"
  /\ disk' = [disk EXCEPT ![calls[s].key] = NoFile]
  /\ calls' = [calls EXCEPT ![s] = Idle]
  /\ IF calls[s].op = "del"
       THEN /\ ret' = NoReturn
            /\ deleted' = [deleted EXCEPT ![calls[s].key] = TRUE]
       ELSE /\ ret' = Returned("get", calls[s].key, Absent, "mem", calls[s].stale)
            /\ UNCHANGED deleted
  /\ UNCHANGED nonCacheVars
  /\ UNCHANGED <<now, ops, cacheMap, currentBytes, writes, nextSweep, setLog, recency>>

\* clear(): synchronous, memory and every file of CACHE_DIR
Clear ==
  /\ ops < MaxOps /\ ops' = ops + 1
  /\ cacheMap' = <<>>
  /\ currentBytes' = 0
  /\ disk' = [k \in Keys |-> NoFile]
  /\ ret' = NoReturn
  /\ deleted' = [k \in Keys |-> TRUE]
  /\ UNCHANGED nonCacheVars
  /\ UNCHANGED <<now, writes, calls, nextSweep, setLog, recency>>

\* the setInterval callback: drop expired entries, then evictIfNeeded
Sweep ==
  /\ now >= nextSweep
  /\ LET kept == SelectSeq(cacheMap, LAMBDA e : ~Expired(e, now))
         gone == SelectSeq(cacheMap, LAMBDA e : Expired(e, now))
         RECURSIVE Sum(_)
         Sum(q) == IF q = <<>> THEN 0 ELSE Head(q).size + Sum(Tail(q))
         ev == evictIfNeeded(kept, currentBytes - Sum(gone))
     IN /\ cacheMap' = ev.map
        /\ currentBytes' = ev.bytes
  /\ nextSweep' = now + DEFAULT_SWEEP_INTERVAL
  /\ ret' = NoReturn
  /\ UNCHANGED nonCacheVars
  /\ UNCHANGED <<now, ops, disk, writes, calls, setLog, recency, deleted>>

CacheTick ==
  /\ now + TickMs <= MaxTicks * TickMs
  /\ now' = now + TickMs
  /\ ret' = NoReturn
  /\ UNCHANGED nonCacheVars
  /\ UNCHANGED <<ops, cacheMap, currentBytes, disk, writes, calls, nextSweep,
                 setLog, recency, deleted>>

CacheNext ==
  \/ \E k \in KeyChoices : GetStart(k)
  \/ \E s \in 1..MaxSlots : DiskRead(s)
  \/ \E s \in 1..MaxSlots : GetResume(s)
  \/ \E k \in KeyChoices, v \in ValueChoices, t \in TTLs : Set(k, v, t)
  \/ \E w \in writes : WriteDone(w)
  \/ \E w \in writes : WriteFail(w)
  \/ \E k \in KeyChoices : DelStart(k)
  \/ \E s \in 1..MaxSlots : UnlinkDone(s)
  \/ Clear
  \/ Sweep
  \/ CacheTick

\* One client that awaits each call before it makes the next: no call is made
\* while a get or a del is suspended (the disk writes of set are awaited by
\* nobody and stay in flight).
NoCallSuspended == \A s \in 1..MaxSlots : calls[s] = Idle

SeqCacheNext ==
  \/ \E k \in KeyChoices : NoCallSuspended /\ GetStart(k)
  \/ \E s \in 1..MaxSlots : DiskRead(s)
  \/ \E s \in 1..MaxSlots : GetResume(s)
  \/ \E k \in KeyChoices, v \in ValueChoices, t \in TTLs :
       NoCallSuspended /\ Set(k, v, t)
  \/ \E w \in writes : WriteDone(w)
  \/ \E w \in writes : WriteFail(w)
  \/ \E k \in KeyChoices : NoCallSuspended /\ DelStart(k)
  \/ \E s \in 1..MaxSlots : UnlinkDone(s)
  \/ NoCallSuspended /\ Clear
  \/ Sweep
  \/ CacheTick

(***************************************************************************)
(* FETCH ORCHESTRATOR                                                      *)
(***************************************************************************)

\* Bounds of the fetch model.
MaxRetries == 2      \* opts.retries ranges over 0..MaxRetries
MaxFetchTicks == 4   \* the clock runs to MaxFetchTicks * BACKOFF_BASE

DEFAULT_TIMEOUT == 15000
DEFAULT_RETRIES == 2
BACKOFF_BASE == 300

\* What the upstream does to one attempt: a status line, a status line whose
\* body then fails to arrive, or a connection error.  The abort timer adds
\* the error "abort".
Status(s) == [kind |-> "status", status |-> s, err |-> ""]
Err(e) == [kind |-> "error", status |-> 0, err |-> e]
BrokenBody == [kind |-> "status", status |-> 200, err |-> "body"]
Pending == [kind |-> "pending", status |-> 0, err |-> ""]
NoErr == [kind |-> "none", status |-> 0, err |-> ""]
Statuses == {200, 404, 503}
Upstream == {Status(s) : s \in Statuses} \cup {BrokenBody, Err("reset")}

\* opts.retries: not given, or a number
RetryOpts == {[given |-> FALSE, n |-> 0]}
               \cup {[given |-> TRUE, n |-> n] : n \in 0..MaxRetries}
\* opts.timeout: 0 stands for not given
TimeoutOpts == {0, 2 * BACKOFF_BASE}

NoResult == [kind |-> "none", err |-> NoErr, from |-> "none"]
Resolved(from) == [kind |-> "resolved", err |-> NoErr, from |-> from]
Rejected(e) == [kind |-> "rejected", err |-> e, from |-> "none"]
ReturnedVoid == [kind |-> "returned", err |-> NoErr, from |-> "none"]

\* res: the status set (0: none set), the body written, whether it was ended
NoSink == [status |-> 0, body |-> "none", ended |-> FALSE, headers |-> {}]
Sent(status, body) ==
  [status |-> status, body |-> body, ended |-> TRUE, headers |-> {}]

\* the header names an upstream response may carry
UpstreamHeaderSets ==
  { {}, {"content-type", "etag", "set-cookie"} }
headerWhitelist ==
  {"content-type", "content-length", "last-modified", "etag", "cache-control"}
\* headers handed on without a filter
ForwardAll(hs) == hs
\* headerWhitelist.forEach(h => ... fetched.headers.get(h) ...)
Forwarded(hs) == hs \cap headerWhitelist

\* cacheKeyFor(url, {mode}): one url, so one key per mode
CacheKeys == {"url|text", "url|stream"}
cacheKeyFor(mode) == IF mode = "text" THEN "url|text" ELSE "url|stream"

\* What the cache holds under a key: nothing, the text fetchText stored, or
\* the {headers, body} streamToResponse stored ("by" is the mode that stored
\* it).  An entry that left memory comes back from disk as {value, meta}:
\* wrapped.
NoEntry == [kind |-> "none", by |-> "", body |-> "", headers |-> {}, wrapped |-> FALSE]
TextEntry(text) ==
  [kind |-> "text", by |-> "text", body |-> text, headers |-> {}, wrapped |-> FALSE]
StreamEntry(hs) ==
  [kind |-> "stream", by |-> "stream", body |-> "b", headers |-> hs, wrapped |-> FALSE]
\* the bodies of a 200 answer to fetchText: some text, or none at all
Texts == {"t", ""}

\* "if (cached)" of fetchText, "if (cached && cached.body)" of streamToResponse
Usable(mode, c) ==
  IF c.kind = "none" THEN FALSE
  ELSE IF mode = "text" THEN c.wrapped \/ c.body # ""
  ELSE ~c.wrapped /\ c.kind = "stream" /\ c.body # ""

NoTimer == [setAt |-> 0, ms |-> 0]

\* a backoff that does not grow with the attempt number
BackoffFlat(n) == BACKOFF_BASE

\* the argument of sleep() after a failed attempt
BackoffMs(n) == BACKOFF_BASE * n

FetchInit ==
  /\ fMode = "text"
  /\ retries = 0
  /\ timeout = 0
  /\ useCache = FALSE
  /\ attempt = 0
  /\ lastErr = NoErr
  /\ fpc = "idle"
  /\ timer = NoTimer
  /\ deadline = 0
  /\ log = <<>>
  /\ result = NoResult
  /\ sink = NoSink
  /\ fCache = [k \in CacheKeys |-> NoEntry]
  /\ cacheLog = <<>>
  /\ upHeaders = {}

\* the head of the retry loop, up to "await fetch(url, ...)"
StartAttempt(t) ==
  /\ attempt' = attempt + 1
  /\ deadline' = now + t
  /\ log' = Append(log, Pending)
  /\ fpc' = "inflight"

\* the catch block of the retry loop and, when the loop ends, what follows it
Caught(e) ==
  /\ lastErr' = e
  /\ IF attempt <= retries
       THEN /\ fpc' = "sleeping"
            /\ timer' = [setAt |-> now, ms |-> BackoffMs(attempt)]
            /\ UNCHANGED <<result, sink>>
       ELSE /\ fpc' = "done"
            /\ UNCHANGED timer
            /\ IF fMode = "text"
                 THEN /\ result' = Rejected(e)
                      /\ UNCHANGED sink
                 ELSE /\ result' = ReturnedVoid
                      /\ sink' = Sent(502, "Failed to fetch resource")

\* fetchText(url, opts) or streamToResponse(url, res, opts), up to the first
\* await
Call(mode, urlOk, r, t, uc) ==
  /\ fpc = "idle"
  /\ mode \in {"text", "stream"} /\ urlOk \in BOOLEAN /\ r \in RetryOpts
  /\ t \in TimeoutOpts /\ uc \in BOOLEAN
  /\ fMode' = mode
  /\ IF ~urlOk
       THEN /\ fpc' = "done"
            /\ IF mode = "text"
                 THEN /\ result' = Rejected(Err("Invalid URL"))
                      /\ UNCHANGED sink
                 ELSE /\ result' = ReturnedVoid
                      /\ sink' = Sent(400, "Invalid URL")
            /\ UNCHANGED <<retries, timeout, useCache, attempt, deadline, log>>
       ELSE LET tmo == IF t # 0 THEN t ELSE DEFAULT_TIMEOUT IN
            /\ timeout' = tmo
            /\ retries' = IF r.given THEN r.n ELSE DEFAULT_RETRIES
            /\ useCache' = uc
            /\ IF uc
                 THEN /\ fpc' = "cache"
                      /\ UNCHANGED <<attempt, deadline, log>>
                 ELSE StartAttempt(tmo)
            /\ UNCHANGED <<result, sink>>
  /\ cacheLog' = IF urlOk /\ uc
                   THEN Append(cacheLog, [op |-> "get", key |-> cacheKeyFor(mode)])
                   ELSE cacheLog
  /\ UNCHANGED <<lastErr, timer, fCache, upHeaders>>

\* a call made on its own
FetchCall(mode, urlOk, r, t, uc) ==
  /\ Call(mode, urlOk, r, t, uc)
  /\ UNCHANGED now
  /\ UNCHANGED nonFetchVars

\* "await resourceCache.get(key)" resolves: a usable entry ends the call, a
\* miss (or a failed read) goes on to the first attempt
CacheAnswer ==
  /\ fpc = "cache"
  /\ LET cached == fCache[cacheKeyFor(fMode)] IN
     IF Usable(fMode, cached)
       THEN /\ fpc' = "done"
            /\ IF fMode = "text"
                 THEN /\ result' = Resolved("cache")
                      /\ UNCHANGED sink
                 ELSE /\ result' = ReturnedVoid
                      /\ sink' = [Sent(200, "cached body") EXCEPT
                                    !.headers = cached.headers]
            /\ UNCHANGED <<attempt, deadline, log>>
       ELSE /\ StartAttempt(timeout)
            /\ UNCHANGED <<result, sink>>
  /\ UNCHANGED <<now, fMode, retries, timeout, useCache, lastErr, timer>>
  /\ UNCHANGED <<fCache, cacheLog, upHeaders>>
  /\ UNCHANGED nonFetchVars

\* the "if (!res.ok)" branch taken while retries remain and the status is 5xx
SleepAfter(e) ==
  /\ lastErr' = e
  /\ fpc' = "sleeping"
  /\ timer' = [setAt |-> now, ms |-> BackoffMs(attempt)]
  /\ UNCHANGED <<result, sink>>

IsOk(o) == o.kind = "status" /\ o.status >= 200 /\ o.status <= 299

\* "await fetch(...)" settles before the abort timer is due, and the call runs
\* on to its next await or to its end
Respond(o) ==
  /\ fpc = "inflight"
  /\ now < deadline
  /\ o \in Upstream
  /\ log' = [log EXCEPT ![attempt] = o]
  /\ IF o.kind = "error"
       THEN Caught(o)
     ELSE IF ~IsOk(o)
       THEN IF o.status >= 500 /\ attempt <= retries
              THEN SleepAfter(o)
            ELSE IF fMode = "text"
              THEN Caught(o)          \* the throw lands in the catch block
              ELSE /\ fpc' = "done"
                   /\ result' = ReturnedVoid
                   /\ sink' = Sent(o.status, "Upstream error")
                   /\ UNCHANGED <<lastErr, timer>>
     ELSE IF fMode = "text"
       THEN IF o.err = ""
              THEN /\ fpc' = "done"
                   /\ result' = Resolved("upstream")
                   /\ UNCHANGED <<lastErr, timer, sink>>
              ELSE Caught(Err("body"))  \* "await res.text()" rejects
       ELSE /\ fpc' = "streaming"
            /\ result' = ReturnedVoid
            /\ \E hs \in UpstreamHeaderSets :
                 /\ upHeaders' = hs
                 /\ sink' = [status |-> 200, body |-> "streaming",
                             ended |-> FALSE, headers |-> Forwarded(hs)]
            /\ UNCHANGED <<lastErr, timer>>
  /\ IF fMode = "text" /\ IsOk(o) /\ o.err = "" /\ useCache
       THEN \* resourceCache.set(key, text, ttl), whatever the text is
            /\ \E text \in Texts :
                 fCache' = [fCache EXCEPT ![cacheKeyFor(fMode)] = TextEntry(text)]
            /\ cacheLog' = Append(cacheLog,
                                  [op |-> "set", key |-> cacheKeyFor(fMode)])
       ELSE UNCHANGED <<fCache, cacheLog>>
  /\ (fMode = "text" \/ ~IsOk(o)) => UNCHANGED upHeaders
  /\ UNCHANGED <<now, fMode, retries, timeout, useCache, attempt, deadline>>
  /\ UNCHANGED nonFetchVars

\* the abort timer fires: "await fetch(...)" rejects
Abort ==
  /\ fpc = "inflight"
  /\ now >= deadline
  /\ log' = [log EXCEPT ![attempt] = Err("abort")]
  /\ Caught(Err("abort"))
  /\ UNCHANGED <<now, fMode, retries, timeout, useCache, attempt, deadline>>
  /\ UNCHANGED <<fCache, cacheLog, upHeaders>>
  /\ UNCHANGED nonFetchVars

\* sleep(ms) resolves and the loop starts its next attempt
Wake ==
  /\ fpc = "sleeping"
  /\ now >= timer.setAt + timer.ms
  /\ StartAttempt(timeout)
  /\ UNCHANGED <<now, fMode, retries, timeout, useCache, lastErr, timer, result, sink>>
  /\ UNCHANGED <<fCache, cacheLog, upHeaders>>
  /\ UNCHANGED nonFetchVars

\* the 'end' event of the upstream body: res.end(), and with the capture
\* branch resourceCache.set(key, {headers, body}, ttl)
StreamEnd(captured) ==
  /\ fpc = "streaming"
  /\ captured \in BOOLEAN   \* 0 < capturedLen < Number.MAX_SAFE_INTEGER
  /\ log[attempt].err = ""
  /\ sink' = [sink EXCEPT !.body = "complete", !.ended = TRUE]
  /\ fpc' = "done"
  /\ IF useCache /\ captured
       THEN /\ fCache' = [fCache EXCEPT ![cacheKeyFor(fMode)] =
                            StreamEntry(Forwarded(upHeaders))]
            /\ cacheLog' = Append(cacheLog,
                                  [op |-> "set", key |-> cacheKeyFor(fMode)])
       ELSE UNCHANGED <<fCache, cacheLog>>
  /\ UNCHANGED <<now, fMode, retries, timeout, useCache, attempt, lastErr, timer,
                 deadline, log, result, upHeaders>>
  /\ UNCHANGED nonFetchVars

\* the 'error' event of the upstream body: the capture branch ends res,
\* reader.pipe(res) leaves it open
StreamError ==
  /\ fpc = "streaming"
  /\ log[attempt].err = "body"
  /\ sink' = [sink EXCEPT !.body = "truncated", !.ended = useCache]
  /\ fpc' = "done"
  /\ UNCHANGED <<now, fMode, retries, timeout, useCache, attempt, lastErr, timer,
                 deadline, log, result, fCache, cacheLog, upHeaders>>
  /\ UNCHANGED nonFetchVars

\* An earlier call for the same url filled the cache: fetchText stored the
\* text of a 200 answer, streamToResponse the captured body and the headers
\* it had forwarded.
EarlierStore(e) ==
  /\ fpc = "idle"
  /\ e \in {TextEntry(t) : t \in Texts}
          \cup {StreamEntry(Forwarded(hs)) : hs \in UpstreamHeaderSets}
  /\ fCache[cacheKeyFor(e.by)] = NoEntry
  /\ fCache' = [fCache EXCEPT ![cacheKeyFor(e.by)] = e]
  /\ UNCHANGED <<now, fMode, retries, timeout, useCache, attempt, lastErr, fpc,
                 timer, deadline, log, result, sink, cacheLog, upHeaders>>
  /\ UNCHANGED nonFetchVars

\* An entry left memory (evicted, or swept after its ttl) with its file still
\* on disk: the next get loads the persisted {value, meta} object.
LeavesMemory(k) ==
  /\ fpc = "idle"
  /\ k \in CacheKeys
  /\ fCache[k] # NoEntry /\ ~fCache[k].wrapped
  /\ fCache' = [fCache EXCEPT ![k].wrapped = TRUE]
  /\ UNCHANGED <<now, fMode, retries, timeout, useCache, attempt, lastErr, fpc,
                 timer, deadline, log, result, sink, cacheLog, upHeaders>>
  /\ UNCHANGED nonFetchVars

FetchTick ==
  /\ fpc \in {"inflight", "sleeping"}
  /\ now + BACKOFF_BASE <= MaxFetchTicks * BACKOFF_BASE
  /\ now' = now + BACKOFF_BASE
  /\ UNCHANGED fetchVars
  /\ UNCHANGED nonFetchVars

\* Time passes while the body of a streamed response arrives: the abort
\* timer was cleared when the headers came, and streamToResponse gives fetch
\* no timeout option.
BodyStall ==
  /\ fpc = "streaming"
  /\ now + BACKOFF_BASE <= MaxFetchTicks * BACKOFF_BASE
  /\ now' = now + BACKOFF_BASE
  /\ UNCHANGED fetchVars
  /\ UNCHANGED nonFetchVars

\* nothing happens until the next timer is due: the abort timer of the attempt
\* in flight, or the sleep before the next attempt
TimerTick ==
  /\ \/ fpc = "inflight" /\ now < deadline /\ now' = deadline
     \/ /\ fpc = "sleeping" /\ now < timer.setAt + timer.ms
        /\ now' = timer.setAt + timer.ms
  /\ UNCHANGED fetchVars
  /\ UNCHANGED nonFetchVars

FetchNext ==
  \/ \E mode \in {"text", "stream"}, urlOk \in BOOLEAN, r \in RetryOpts,
        t \in TimeoutOpts, uc \in BOOLEAN : FetchCall(mode, urlOk, r, t, uc)
  \/ CacheAnswer
  \/ \E o \in Upstream : Respond(o)
  \/ Abort
  \/ Wake
  \/ \E captured \in BOOLEAN : StreamEnd(captured)
  \/ StreamError
  \/ \E e \in {TextEntry(t) : t \in Texts}
              \cup {StreamEntry(Forwarded(hs)) : hs \in UpstreamHeaderSets} :
       EarlierStore(e)
  \/ \E k \in CacheKeys : LeavesMemory(k)
  \/ FetchTick
  \/ BodyStall
  \/ TimerTick

(***************************************************************************)
(* TARGET VALIDATION                                                       *)
(***************************************************************************)

\* Strings the validators look into are sequences of characters.
h_127_0_0_1 == <<"1","2","7",".","0",".","0",".","1">>
h_127_0_0_2 == <<"1","2","7",".","0",".","0",".","2">>
h_10_0_0_1 == <<"1","0",".","0",".","0",".","1">>
h_0_0_0_0 == <<"0",".","0",".","0",".","0">>
h_localhost == <<"l","o","c","a","l","h","o","s","t">>
h_LOCALHOST == <<"L","O","C","A","L","H","O","S","T">>
h_localhost_dot == <<"l","o","c","a","l","h","o","s","t",".">>
h_v6loopback == <<"[",":",":","1","]">>
h_example_com == <<"e","x","a","m","p","l","e",".","c","o","m">>
h_bare_v6loopback == <<":",":","1">>
h_127_dot == <<"1","2","7",".">>

\* The targets tried: scheme://host[:port]path.  Every host is in the form
\* the URL parser leaves it in but for letter case (no IPv4 shorthand, IPv6
\* compressed and in brackets); a target without a scheme has no port.
Schemes == {"http", "https", ""}
Hosts == {h_127_0_0_1, h_127_0_0_2, h_10_0_0_1, h_0_0_0_0, h_localhost,
          h_LOCALHOST, h_localhost_dot, h_v6loopback, h_example_com}
Ports == {"", "8080"}
Paths == {"", "/x"}
UrlInputs ==
  {u \in [scheme : Schemes, host : Hosts, port : Ports, path : Paths,
           query : {<<>>}] :
     u.scheme = "" => u.port = ""}
NoUrl == [scheme |-> "", host |-> <<>>, port |-> "", path |-> "", query |-> <<>>]

\* Query strings: a list of key=value parameters, the values as characters.
MaxParams == 3   \* the longest query string
ParamKeys == {"a", "b"}
v_1 == <<"1">>
v_tag == <<"<", "b", ">">>
v_Script == <<"S", "c", "r", "i", "p", "t">>
ParamValues == {v_1, v_tag, v_Script}
Params == [key : ParamKeys, value : ParamValues]
Queries == UNION {[1..n -> Params] : n \in 0..MaxParams}
\* the targets with a query string that sanitizeURL is given
QueryInputs ==
  {[scheme |-> sc, host |-> h_example_com, port |-> "", path |-> "/x",
    query |-> q] : sc \in {"", "https"}, q \in Queries \ {<<>>}}

UpperCase == <<"A", "C", "H", "I", "L", "O", "P", "R", "S", "T">>
LowerCase == <<"a", "c", "h", "i", "l", "o", "p", "r", "s", "t">>
LowerChar(c) ==
  IF \E i \in 1..Len(UpperCase) : UpperCase[i] = c
    THEN LowerCase[CHOOSE i \in 1..Len(UpperCase) : UpperCase[i] = c]
    ELSE c
\* String.prototype.toLowerCase
toLowerCase(s) == [i \in 1..Len(s) |-> LowerChar(s[i])]
\* String.prototype.startsWith
startsWith(s, p) == Len(s) >= Len(p) /\ SubSeq(s, 1, Len(p)) = p

\* new URL(str) succeeds: an absolute URL needs a scheme
Parses(u) == u.scheme # "" /\ u.host # <<>>
\* new URL(str).hostname: lower case, without the port, an IPv6 literal
\* with its brackets
Hostname(u) == toLowerCase(u.host)
\* parsed.toString(): the host in lower case, "/" for an empty path
Serialize(u) ==
  [scheme |-> u.scheme, host |-> toLowerCase(u.host), port |-> u.port,
   path |-> IF u.path = "" THEN "/" ELSE u.path, query |-> u.query]

\* validator.js
BLACKLIST_HOSTS == {h_127_0_0_1, h_localhost, h_bare_v6loopback}
isValidUrl(u) == Parses(u) /\ u.scheme \in {"http", "https"}
isHostAllowed(host) ==
  IF host = <<>> THEN FALSE ELSE toLowerCase(host) \notin BLACKLIST_HOSTS
validateUrl(u) ==
  IF ~isValidUrl(u) THEN [valid |-> FALSE, reason |-> "Invalid URL"]
  ELSE IF ~isHostAllowed(Hostname(u))
    THEN [valid |-> FALSE, reason |-> "Host is blacklisted"]
  ELSE [valid |-> TRUE, reason |-> ""]

\* net.isIP: a dotted quad of digits, or a bare (bracketless) IPv6 literal
Digits == {"0", "1", "2", "3", "4", "5", "6", "7", "8", "9"}
DotCount(s) == Cardinality({i \in 1..Len(s) : s[i] = "."})
isIP(s) ==
  \/ /\ s # <<>> /\ \A i \in 1..Len(s) : s[i] \in Digits \cup {"."}
     /\ DotCount(s) = 3 /\ s[1] # "." /\ s[Len(s)] # "."
  \/ /\ s # <<>>
     /\ \A i \in 1..Len(s) : s[i] \in Digits \cup {":", "a", "b", "c", "d", "e", "f"}
     /\ \E i \in 1..Len(s) : s[i] = ":"
isLocalAddress(host) ==
  /\ isIP(host)
  /\ \/ startsWith(host, <<"1","0",".">>)
     \/ startsWith(host, <<"1","9","2",".","1","6","8",".">>)
     \/ startsWith(host, <<"1","7","2",".","1","6",".">>)
     \/ host = h_127_0_0_1

\* config.js: the default of proxy.blockedHostnames
blockedHostnames == {h_localhost, h_127_0_0_1, h_bare_v6loopback, h_0_0_0_0}
isBlockedHostname(hostname) ==
  IF hostname = <<>> THEN TRUE
  ELSE \E b \in blockedHostnames :
         \/ toLowerCase(hostname) = toLowerCase(b)
         \/ startsWith(toLowerCase(hostname), toLowerCase(b))

\* sanitize.js: null (ok = FALSE) or the string of the parsed URL
badHosts == {h_localhost, h_127_dot, h_bare_v6loopback, h_0_0_0_0}
Rejects == [ok |-> FALSE, url |-> NoUrl]
\* String.prototype.includes
includes(s, p) ==
  \E i \in 1..(Len(s) - Len(p) + 1) : SubSeq(s, i, i + Len(p) - 1) = p
\* /(<|>|script|javascript:)/i.test(v)
DangerPatterns ==
  { <<"<">>, <<">">>, <<"s","c","r","i","p","t">>,
    <<"j","a","v","a","s","c","r","i","p","t",":">> }
Dangerous(v) == \E p \in DangerPatterns : includes(toLowerCase(v), p)
\* URLSearchParams.prototype.delete(name): every parameter of that name
DeleteKey(list, k) == SelectSeq(list, LAMBDA prm : prm.key # k)
\* parsed.searchParams.forEach((v, k) => { if (...) delete(k) }): forEach
\* walks the live list by index and steps on after every callback
RECURSIVE forEachDelete(_, _)
forEachDelete(list, i) ==
  IF i > Len(list) THEN list
  ELSE IF Dangerous(list[i].value)
    THEN forEachDelete(DeleteKey(list, list[i].key), i + 1)
    ELSE forEachDelete(list, i + 1)
sanitizeURL(u) ==
  LET raw == IF u.scheme \in {"http", "https"} THEN u
             ELSE [u EXCEPT !.scheme = "https"]
  IN IF u.host = <<>> \/ ~Parses(raw) THEN Rejects
     ELSE IF \E h \in badHosts : startsWith(toLowerCase(Hostname(raw)), h)
       THEN Rejects
     ELSE [ok |-> TRUE,
           url |-> [Serialize(raw) EXCEPT !.query = forEachDelete(raw.query, 1)]]

ValInit ==
  /\ vUrl = NoUrl
  /\ vRes = [fn |-> "none", pass |-> FALSE, reason |-> "", url |-> NoUrl]

\* validateUrl(target)
ApplyValidateUrl ==
  /\ vRes' = [fn |-> "validateUrl", pass |-> validateUrl(vUrl).valid,
              reason |-> validateUrl(vUrl).reason, url |-> NoUrl]
  /\ UNCHANGED <<now, vUrl>>
  /\ UNCHANGED nonValVars

\* isBlockedHostname(new URL(target).hostname)
ApplyIsBlockedHostname ==
  /\ Parses(vUrl)
  /\ vRes' = [fn |-> "isBlockedHostname",
              pass |-> ~isBlockedHostname(Hostname(vUrl)),
              reason |-> "", url |-> NoUrl]
  /\ UNCHANGED <<now, vUrl>>
  /\ UNCHANGED nonValVars

\* sanitizeURL(target)
ApplySanitizeURL ==
  /\ vRes' = [fn |-> "sanitizeURL", pass |-> sanitizeURL(vUrl).ok,
              reason |-> "", url |-> sanitizeURL(vUrl).url]
  /\ UNCHANGED <<now, vUrl>>
  /\ UNCHANGED nonValVars

ValNext ==
  \/ ApplyValidateUrl
  \/ ApplyIsBlockedHostname
  \/ ApplySanitizeURL

(***************************************************************************)
(* REQUEST HANDLERS: GET /proxy AND GET /resource                          *)
(* /proxy is taken to run the handler proxyMiddleware() builds, which is   *)
(* the "central handler" server.js means to call.                          *)
(***************************************************************************)

\* the targets a request may carry: none, or a URL
PipeTargets == {NoUrl} \cup {u \in UrlInputs : u.path = "/x" /\ u.port = ""}

\* fetcher.js isValidUrl: new URL(u) does not throw
fetcherIsValidUrl(u) == Parses(u)

PipeInit ==
  /\ ppc = "idle"
  /\ pRoute = "none"
  /\ pTarget = NoUrl
  /\ pValidated = FALSE
  /\ pFetched = FALSE
  /\ pStatus = 0
  /\ pThrottled = FALSE
  /\ pSends = 0

\* GET /proxy?url=target, up to "await fetch(targetUrl, ...)" or the error
\* response.  A throttled request has got its 429 from the throttler, and the
\* handler goes on all the same (its next() is a no-op).  A send on a
\* response that was sent throws into the catch block, which sends again.
ProxyRequest(target, throttled) ==
  /\ ppc = "idle" /\ fpc = "idle"
  /\ target \in PipeTargets /\ throttled \in BOOLEAN
  /\ pRoute' = "proxy"
  /\ pTarget' = target
  /\ pThrottled' = throttled
  /\ LET first == IF throttled THEN 429 ELSE 0
         \* the status the client sees: the first one sent
         send(s) == IF first # 0 THEN first ELSE s
         \* the error response, and after a 429 the one of the catch block
         sends == IF throttled THEN 3 ELSE 1
     IN IF target = NoUrl
          THEN /\ pStatus' = send(400) /\ ppc' = "done" /\ pSends' = sends
               /\ UNCHANGED <<pValidated, pFetched>>
        ELSE IF ~validateUrl(target).valid
          THEN /\ pStatus' = send(400) /\ ppc' = "done" /\ pSends' = sends
               /\ UNCHANGED <<pValidated, pFetched>>
        ELSE IF isLocalAddress(Hostname(target))
          THEN /\ pStatus' = send(403) /\ ppc' = "done" /\ pSends' = sends
               /\ UNCHANGED <<pValidated, pFetched>>
        ELSE /\ pStatus' = first /\ ppc' = "fetching"
             /\ pSends' = IF throttled THEN 1 ELSE 0
             /\ pValidated' = TRUE /\ pFetched' = TRUE
  /\ UNCHANGED <<now, cacheVars, fetchVars, valVars, auxVars>>

\* "await fetch(...)" and "await response.text()" of proxyMiddleware settle:
\* any status is passed on as a 200 page, an error becomes a 500
ProxyAnswer(o) ==
  /\ ppc = "fetching"
  /\ o \in Upstream
  /\ pStatus' = IF pStatus # 0 THEN pStatus
                ELSE IF o.kind = "error" \/ o = BrokenBody THEN 500 ELSE 200
  /\ ppc' = "done"
  \* res.send(body), or the res.send of the catch block
  /\ pSends' = pSends + 1
  /\ UNCHANGED <<pRoute, pTarget, pValidated, pFetched, pThrottled>>
  /\ UNCHANGED <<now, cacheVars, fetchVars, valVars, auxVars>>

\* GET /resource?url=target: the handler hands the target to
\* streamToResponse with no option but incomingReq
ResourceRequest(target) ==
  /\ ppc = "idle" /\ fpc = "idle"
  /\ target \in PipeTargets
  /\ pRoute' = "resource"
  /\ pTarget' = target
  /\ pThrottled' = FALSE
  /\ IF target = NoUrl
       THEN /\ pStatus' = 400 /\ ppc' = "done" /\ pSends' = 1
            /\ UNCHANGED fetchVars
       ELSE /\ pStatus' = 0 /\ ppc' = "streamToResponse" /\ pSends' = 0
            /\ Call("stream", fetcherIsValidUrl(target),
                    [given |-> FALSE, n |-> 0], 0, TRUE)
  /\ UNCHANGED <<pValidated, pFetched>>
  /\ UNCHANGED <<now, cacheVars, valVars, auxVars>>

\* an upstream request for the target of the request has been issued
UpstreamRequested ==
  \/ pFetched
  \/ pRoute = "resource" /\ Len(log) >= 1

PipeNext ==
  \/ \E target \in PipeTargets, throttled \in BOOLEAN :
       ProxyRequest(target, throttled)
  \/ \E o \in Upstream : ProxyAnswer(o)
  \/ \E target \in PipeTargets : ResourceRequest(target)
  \/ \E hs \in UpstreamHeaderSets : EarlierStore(StreamEntry(Forwarded(hs)))
  \/ CacheAnswer
  \/ \E o \in Upstream : Respond(o)
  \/ Abort
  \/ Wake
  \/ \E captured \in BOOLEAN : StreamEnd(captured)
  \/ StreamError
  \/ FetchTick
  \/ BodyStall
  \/ TimerTick

(***************************************************************************)
(* checkHostAllowed (src/proxy/security.js)                                *)
(***************************************************************************)
h_evilexample_com == <<"e","v","i","l">> \o h_example_com
h_cdn_example_com == <<"c","d","n",".">> \o h_example_com
h_site_test == <<"s","i","t","e",".","t","e","s","t">>
h_wikipedia_org == <<"w","i","k","i","p","e","d","i","a",".","o","r","g">>
h_github_com == <<"g","i","t","h","u","b",".","c","o","m">>

allowedDomains == <<h_example_com, h_wikipedia_org, h_github_com>>
\* the subnets as [block, bits]
blockedSubnets ==
  << [block |-> <<127, 0, 0, 0>>, bits |-> 8],
     [block |-> <<10, 0, 0, 0>>, bits |-> 8],
     [block |-> <<172, 16, 0, 0>>, bits |-> 12],
     [block |-> <<192, 168, 0, 0>>, bits |-> 16] >>

\* the hostnames checkHostAllowed is called with
SecHosts ==
  {<<>>, h_example_com, h_evilexample_com, h_cdn_example_com, h_site_test,
   h_LOCALHOST}
\* An address the resolver returns: IPv4 as its four octets, IPv6 as what
\* net.isIP says of it (family 6).
V4(a, b, c, d) == [family |-> 4, octets |-> <<a, b, c, d>>]
V6Loopback == [family |-> 6, octets |-> <<>>]
Addresses ==
  { V4(127, 0, 0, 1), V4(10, 1, 2, 3), V4(172, 16, 0, 1), V4(172, 32, 0, 1),
    V4(192, 168, 1, 1), V4(169, 254, 169, 254), V4(93, 184, 216, 34),
    V4(0, 0, 0, 0), V6Loopback }
\* dns.lookup(domain, {all: true}): rejects, or resolves to a list
DnsFailure == [ok |-> FALSE, addrs |-> <<>>]
DnsAnswers ==
  {DnsFailure}
    \cup {[ok |-> TRUE, addrs |-> <<a>>] : a \in Addresses}
    \cup {[ok |-> TRUE, addrs |-> <<a, b>>] : a, b \in Addresses}

\* x << 8 on 32-bit integers: the low 24 bits of x move up, the top one of
\* them becomes the sign
Shl8(x) ==
  LET low == x % 16777216
  IN  IF low >= 8388608 THEN (low - 16777216) * 256 ELSE low * 256
RECURSIVE ipToIntFrom(_, _, _)
ipToIntFrom(octets, i, acc) ==
  IF i > Len(octets) THEN acc
  ELSE ipToIntFrom(octets, i + 1, Shl8(acc) + octets[i])
\* ip.split('.').reduce((acc, o) => (acc << 8) + parseInt(o, 10), 0)
ipToInt(octets) == ipToIntFrom(octets, 1, 0)
RECURSIVE Pow2(_)
Pow2(n) == IF n = 0 THEN 1 ELSE 2 * Pow2(n - 1)
\* x & ~(2 ** (32 - bits) - 1): the low 32 - bits bits cleared
MaskTo(x, bits) == x - (x % Pow2(32 - bits))
ipInSubnet(ip, subnet) ==
  LET ipBuf == IF ip.family = 4 THEN ipToInt(ip.octets) ELSE 0
      blockBuf == ipToInt(subnet.block)
  IN  IF ipBuf = 0 \/ blockBuf = 0 THEN FALSE   \* !ipBuf || !blockBuf
      ELSE MaskTo(ipBuf, subnet.bits) = MaskTo(blockBuf, subnet.bits)

\* String.prototype.endsWith
endsWith(s, p) ==
  Len(s) >= Len(p) /\ SubSeq(s, Len(s) - Len(p) + 1, Len(s)) = p
AllowListed(domain) ==
  \E i \in 1..Len(allowedDomains) : endsWith(domain, allowedDomains[i])
Blocked(ip) ==
  \E i \in 1..Len(blockedSubnets) : ipInSubnet(ip, blockedSubnets[i])

NoVerdict == "none"

SecInit ==
  /\ sHost = <<>>
  /\ sDns = DnsFailure
  /\ spc = "idle"
  /\ sRet = NoVerdict

\* checkHostAllowed(hostname) up to its first suspension
CheckHostAllowed(hostname, dnsState) ==
  /\ spc = "idle"
  /\ hostname \in SecHosts /\ dnsState \in DnsAnswers
  /\ sHost' = hostname
  /\ sDns' = dnsState
  /\ IF hostname = <<>>
       THEN spc' = "done" /\ sRet' = FALSE
       ELSE IF AllowListed(toLowerCase(hostname))
         THEN spc' = "done" /\ sRet' = TRUE
         ELSE spc' = "lookup" /\ sRet' = NoVerdict
  /\ UNCHANGED <<coreVars, cssVars, rwVars, capVars, thrVars>>

\* dns.lookup settles: the loop over the addresses, or the catch
LookupDone ==
  /\ spc = "lookup"
  /\ spc' = "done"
  /\ sRet' = IF ~sDns.ok THEN FALSE
             ELSE ~(\E i \in 1..Len(sDns.addrs) : Blocked(sDns.addrs[i]))
  /\ UNCHANGED <<sHost, sDns>>
  /\ UNCHANGED <<coreVars, cssVars, rwVars, capVars, thrVars>>

SecNext ==
  \/ \E hostname \in SecHosts, dnsState \in DnsAnswers :
       CheckHostAllowed(hostname, dnsState)
  \/ LookupDone

(***************************************************************************)
(* inlineImports (cssParser.js, in src/unnamed/part_000)                   *)
(*                                                                         *)
(* A stylesheet is a list of tokens: "t" is text without an import, "@x"   *)
(* is the statement  @import 'x';  and positions count tokens.             *)
(***************************************************************************)
MaxPad == 2          \* the most text tokens before an import statement
MaxCssFetches == 4   \* fetcherFn is called at most this often

SheetNames == {"a", "b", "c"}
ImportOf(name) ==
  IF name = "a" THEN "@a" ELSE IF name = "b" THEN "@b" ELSE "@c"
\* match[1] of a statement
Target(tok) == CHOOSE n \in SheetNames : ImportOf(n) = tok
IsImport(tok) == \E n \in SheetNames : ImportOf(n) = tok
Pad(n) == [i \in 1..n |-> "t"]
\* a imports b, b imports c, c imports nothing
Chain(pa, ta, pb, lc) ==
  [n \in SheetNames |->
     IF n = "a" THEN Pad(pa) \o <<ImportOf("b")>> \o Pad(ta)
     ELSE IF n = "b" THEN Pad(pb) \o <<ImportOf("c")>>
     ELSE Pad(lc)]
\* a stylesheet of up to MaxCssLen tokens with any number of imports of b and
\* of c, which import nothing and may be empty
MaxCssLen == 3
CssTexts ==
  UNION {[1..n -> {"t", ImportOf("b"), ImportOf("c")}] : n \in 0..MaxCssLen}
Leaves(css, lb, lc) ==
  [n \in SheetNames |->
     IF n = "a" THEN css ELSE IF n = "b" THEN Pad(lb) ELSE Pad(lc)]
\* a imports b, b imports a
Cycle(pa, ta, pb, tb) ==
  [n \in SheetNames |->
     IF n = "a" THEN Pad(pa) \o <<ImportOf("b")>> \o Pad(ta)
     ELSE IF n = "b" THEN Pad(pb) \o <<ImportOf("a")>> \o Pad(tb)
     ELSE <<>>]
NoSheets == [n \in SheetNames |-> <<>>]

\* exec finds no statement
NoMatch(css, from) == 0
\* IMPORT_REGEX.exec(css): the first statement that starts at or after
\* lastIndex, 0 for null
NextImport(css, from) ==
  IF \E i \in (from + 1)..Len(css) : IsImport(css[i])
    THEN CHOOSE i \in (from + 1)..Len(css) :
           /\ IsImport(css[i])
           /\ \A j \in (from + 1)..(i - 1) : ~IsImport(css[j])
    ELSE 0
\* the statement stays in the text in front of what was imported
KeepStatement(css, tok, value) ==
  IF \E i \in 1..Len(css) : css[i] = tok
    THEN LET i == CHOOSE k \in 1..Len(css) :
                    css[k] = tok /\ \A j \in 1..(k - 1) : css[j] # tok
         IN SubSeq(css, 1, i) \o value \o SubSeq(css, i + 1, Len(css))
    ELSE css
\* css.replace(match[0], cleaned): the first occurrence of the statement
ReplaceFirst(css, tok, value) ==
  IF \E i \in 1..Len(css) : css[i] = tok
    THEN LET i == CHOOSE k \in 1..Len(css) :
                    css[k] = tok /\ \A j \in 1..(k - 1) : css[j] # tok
         IN SubSeq(css, 1, i - 1) \o value \o SubSeq(css, i + 1, Len(css))
    ELSE css

Frame(css) == [css |-> css, match |-> ""]
Top == cssStack[Len(cssStack)]

CssInit ==
  /\ cssSheets = NoSheets
  /\ cssStack = <<>>
  /\ lastIndex = 0
  /\ cssFetches = 0
  /\ cssFailed = FALSE
  /\ cssPc = "idle"
  /\ cssOut = <<>>

\* inlineImports(css, baseUrl, fetcherFn) is called on stylesheet a
InlineImports(pa, ta, pb, lc) ==
  /\ cssPc = "idle"
  /\ pa \in 0..MaxPad /\ pb \in 0..MaxPad /\ ta \in 0..1 /\ lc \in 0..1
  /\ cssSheets' = Chain(pa, ta, pb, lc)
  /\ cssStack' = <<Frame(Chain(pa, ta, pb, lc)["a"])>>
  /\ cssPc' = "running"
  /\ UNCHANGED <<lastIndex, cssFetches, cssFailed, cssOut>>
  /\ UNCHANGED <<coreVars, secVars, rwVars, capVars, thrVars>>

\* inlineImports is called on stylesheet a of a cyclic pair
InlineCycle(pa, ta, pb, tb) ==
  /\ cssPc = "idle"
  /\ pa \in 0..MaxPad /\ pb \in 0..MaxPad /\ ta \in 0..1 /\ tb \in 0..1
  /\ cssSheets' = Cycle(pa, ta, pb, tb)
  /\ cssStack' = <<Frame(Cycle(pa, ta, pb, tb)["a"])>>
  /\ cssPc' = "running"
  /\ UNCHANGED <<lastIndex, cssFetches, cssFailed, cssOut>>
  /\ UNCHANGED <<coreVars, secVars, rwVars, capVars, thrVars>>

\* inlineImports is called on a stylesheet with any number of imports
InlineList(css, lb, lc) ==
  /\ cssPc = "idle"
  /\ css \in CssTexts /\ lb \in 0..1 /\ lc \in 0..1
  /\ cssSheets' = Leaves(css, lb, lc)
  /\ IF css = <<>>
       THEN \* "if (!css) return css"
            /\ cssOut' = css /\ cssPc' = "returned"
            /\ UNCHANGED cssStack
       ELSE /\ cssStack' = <<Frame(css)>>
            /\ cssPc' = "running"
            /\ UNCHANGED cssOut
  /\ UNCHANGED <<lastIndex, cssFetches, cssFailed>>
  /\ UNCHANGED <<coreVars, secVars, rwVars, capVars, thrVars>>

\* The innermost call resolves to value: the outermost call is over, or the
\* caller replaces its statement and is back at the head of its loop.
Return(value) ==
  IF Len(cssStack) = 1
    THEN /\ cssStack' = <<>>
         /\ cssOut' = value
         /\ cssPc' = "returned"
    ELSE LET caller == cssStack[Len(cssStack) - 1] IN
         /\ cssStack' =
              [SubSeq(cssStack, 1, Len(cssStack) - 1) EXCEPT
                 ![Len(cssStack) - 1] =
                    Frame(ReplaceFirst(caller.css, caller.match, value))]
         /\ UNCHANGED <<cssOut, cssPc>>

\* the head of the while loop: IMPORT_REGEX.exec(css)
Exec ==
  /\ cssPc = "running" /\ Top.match = ""
  /\ LET i == NextImport(Top.css, lastIndex) IN
     IF i # 0
       THEN /\ lastIndex' = i
            /\ cssStack' = [cssStack EXCEPT ![Len(cssStack)].match = Top.css[i]]
            /\ UNCHANGED <<cssOut, cssPc>>
       ELSE /\ lastIndex' = 0
            /\ Return(Top.css)
  /\ UNCHANGED <<cssSheets, cssFetches, cssFailed>>
  /\ UNCHANGED <<coreVars, secVars, rwVars, capVars, thrVars>>

\* fetcherFn(abs) resolves: the recursive call starts, and returns at once
\* for an empty stylesheet
FetchDone ==
  /\ cssPc = "running" /\ Top.match # ""
  /\ cssFetches < MaxCssFetches
  /\ cssFetches' = cssFetches + 1
  /\ LET importedCss == cssSheets[Target(Top.match)] IN
     IF importedCss = <<>>
       THEN cssStack' = [cssStack EXCEPT ![Len(cssStack)] =
                           Frame(ReplaceFirst(Top.css, Top.match, <<>>))]
       ELSE cssStack' = Append(cssStack, Frame(importedCss))
  /\ UNCHANGED <<cssSheets, lastIndex, cssFailed, cssPc, cssOut>>
  /\ UNCHANGED <<coreVars, secVars, rwVars, capVars, thrVars>>

\* fetcherFn(abs) rejects: the catch removes the statement
FetchFail ==
  /\ cssPc = "running" /\ Top.match # ""
  /\ cssFetches < MaxCssFetches
  /\ cssFetches' = cssFetches + 1
  /\ cssFailed' = TRUE
  /\ cssStack' = [cssStack EXCEPT ![Len(cssStack)] =
                     Frame(ReplaceFirst(Top.css, Top.match, <<>>))]
  /\ UNCHANGED <<cssSheets, lastIndex, cssPc, cssOut>>
  /\ UNCHANGED <<coreVars, secVars, rwVars, capVars, thrVars>>

CssNext ==
  \/ \E pa, pb \in 0..MaxPad, ta, lc \in 0..1 : InlineImports(pa, ta, pb, lc)
  \/ Exec
  \/ FetchDone
  \/ FetchFail

(***************************************************************************)
(* rewriteHtml, rewriteCss (src/proxy/rewrite.js)                          *)
(***************************************************************************)
\* the names the tag pattern of rewriteHtml matches, in the letter cases a
\* case-insensitive pattern accepts
TagNames ==
  <<"img", "script", "iframe", "audio", "video", "source", "link", "embed",
    "object">>
UpperTagNames ==
  <<"IMG", "SCRIPT", "IFRAME", "AUDIO", "VIDEO", "SOURCE", "LINK", "EMBED",
    "OBJECT">>
TagTexts ==
  {TagNames[i] : i \in 1..Len(TagNames)}
    \cup {UpperTagNames[i] : i \in 1..Len(UpperTagNames)}
\* How the attribute's value resolves against the base: an http(s) URL
\* ("absolute" and "relative"), an http(s) URL whose query string reads
\* rel=stylesheet, or a data: URI.
UrlKinds == {"absolute", "relative", "relStylesheetInQuery", "data"}
\* one tag with one URL attribute; rel is "" when the tag has none
TagInputs ==
  [tag : TagTexts, attr : {"src", "href"}, rel : {"", "stylesheet", "icon"},
   url : UrlKinds]
\* /^https?:\/\//i.test(safeResolve(src, baseUrl)), the base being http(s)
ResolvesToHttp(kind) == kind # "data"
\* /rel\s*=\s*['"]?stylesheet['"]?/i.test(newAttrs): the whole attribute
\* text is searched, the value of href included
SaysStylesheet(t) == t.rel = "stylesheet" \/ t.url = "relStylesheetInQuery"
\* the callback of the tag pattern: where the attribute's URL is sent
rewriteTag(t) ==
  IF t.attr = "src"
    THEN IF ResolvesToHttp(t.url)
           THEN IF t.tag \in {"script", "iframe", "embed", "object"}
                  THEN "proxy" ELSE "resource"
           ELSE "unchanged"
    ELSE IF SaysStylesheet(t) THEN "resource" ELSE "proxy"

\* A CSS text is a list of tokens: url( , ) , a name, a separator; the
\* rewriter's output also holds rewritten and kept url(...) values.
Tok(kind, name) == [kind |-> kind, name |-> name, inner |-> <<>>]
Open == Tok("open", "")
Close == Tok("close", "")
Sep == Tok("sep", "")
\* url(resourcePath + encodeURIComponent(abs)) for what stood in the parentheses
Rewritten(inner) == [kind |-> "resource", name |-> "", inner |-> inner]
\* url(cleaned) for a data: URI
Kept(inner) == [kind |-> "kept", name |-> "", inner |-> inner]
Valid(name) == <<Open, Tok("name", name), Close, Sep>>
Broken(name) == <<Open, Tok("name", name), Sep>>
MaxDecls == 3   \* the most declarations in a CSS text
Decls == {Valid("x"), Valid("data:"), Broken("y")}
RECURSIVE Flatten(_)
Flatten(ds) == IF ds = <<>> THEN <<>> ELSE Head(ds) \o Flatten(Tail(ds))
DeclLists == UNION {[1..n -> Decls] : n \in 1..MaxDecls}
CssInputs == {[decls |-> ds, text |-> Flatten(ds)] : ds \in DeclLists}

\* /url\(([^)]+)\)/gi from token i on: a match starts at url( and runs over
\* at least one token that is not ) up to the first )
RECURSIVE rewriteUrls(_, _)
rewriteUrls(toks, i) ==
  IF i > Len(toks) THEN <<>>
  ELSE IF /\ toks[i] = Open
          /\ i + 1 <= Len(toks) /\ toks[i + 1] # Close
          /\ \E j \in (i + 2)..Len(toks) : toks[j] = Close
    THEN LET j == CHOOSE k \in (i + 2)..Len(toks) :
                    toks[k] = Close /\ \A m \in (i + 2)..(k - 1) : toks[m] # Close
             urlPart == SubSeq(toks, i + 1, j - 1)
         IN  <<IF urlPart = <<Tok("name", "data:")>>
                 THEN Kept(urlPart) ELSE Rewritten(urlPart)>>
               \o rewriteUrls(toks, j + 1)
    ELSE <<toks[i]>> \o rewriteUrls(toks, i + 1)
\* rewriteCss(cssText, baseUrl) on a text without @import
rewriteCss(toks) == IF toks = <<>> THEN toks ELSE rewriteUrls(toks, 1)

NoRewrite == [fn |-> "none", prefix |-> "", css |-> <<>>]
RewriteInit ==
  /\ rwIn = [fn |-> "none"]
  /\ rwOut = NoRewrite

\* rewriteHtml(html, baseUrl) on a document of one tag
RewriteHtml(t) ==
  /\ rwOut = NoRewrite
  /\ t \in TagInputs
  /\ rwIn' = [fn |-> "rewriteHtml", tag |-> t]
  /\ rwOut' = [fn |-> "rewriteHtml", prefix |-> rewriteTag(t), css |-> <<>>]
  /\ UNCHANGED <<coreVars, secVars, cssVars, capVars, thrVars>>

\* rewriteCss(cssText, baseUrl)
RewriteCss(c) ==
  /\ rwOut = NoRewrite
  /\ c \in CssInputs
  /\ rwIn' = [fn |-> "rewriteCss", decls |-> c.decls]
  /\ rwOut' = [fn |-> "rewriteCss", prefix |-> "", css |-> rewriteCss(c.text)]
  /\ UNCHANGED <<coreVars, secVars, cssVars, capVars, thrVars>>

RewriteNext ==
  \/ \E t \in TagInputs : RewriteHtml(t)
  \/ \E c \in CssInputs : RewriteCss(c)

(***************************************************************************)
(* streamToResponse: capture to the cache while streaming                  *)
(* (src/proxy/fetcher.js, the reader.on handlers)                          *)
(***************************************************************************)
MaxChunks == 3           \* the most chunks of a body
MAX_CAPTURE == 1048576   \* opts.maxCacheCaptureBytes || 1024 * 1024
ChunkSizes == {400000, 700000, 2000000}
Bodies == UNION {[1..n -> ChunkSizes] : n \in 0..MaxChunks}
\* a chunk as it travels: its place in the body and its length
Chunk(body, i) == [at |-> i, length |-> body[i]]

\* capturedLen is a byte count or Number.MAX_SAFE_INTEGER, which no count
\* of the model reaches: [big |-> TRUE] stands for it
Count(n) == [big |-> FALSE, n |-> n]
\* the mark is lost: the count starts again
StartAgain == Count(0)
\* capturedLen = Number.MAX_SAFE_INTEGER
TooLarge == [big |-> TRUE, n |-> 0]
\* capturedLen + chunk.length <= MAX_CAPTURE
Fits(len, chunk) == ~len.big /\ len.n + chunk.length <= MAX_CAPTURE
NotStored == [stored |-> FALSE, body |-> <<>>]

CaptureInit ==
  /\ capBody = <<>>
  /\ capNext = 0
  /\ capturedLen = Count(0)
  /\ capturedChunks = <<>>
  /\ capSink = [chunks |-> <<>>, ended |-> FALSE]
  /\ capStored = NotStored
  /\ capPc = "idle"

\* the headers of a 200 came and caching is on: the handlers are attached
CaptureStart(body) ==
  /\ capPc = "idle"
  /\ body \in Bodies
  /\ capBody' = body
  /\ capNext' = 1
  /\ capPc' = "streaming"
  /\ UNCHANGED <<capturedLen, capturedChunks, capSink, capStored>>
  /\ UNCHANGED <<coreVars, secVars, cssVars, rwVars, thrVars>>

\* reader.on('data', chunk => ...)
Data ==
  /\ capPc = "streaming" /\ capNext <= Len(capBody)
  /\ LET chunk == Chunk(capBody, capNext) IN
     /\ capSink' = [capSink EXCEPT !.chunks = Append(@, chunk)]
     /\ IF Fits(capturedLen, chunk)
          THEN /\ capturedChunks' = Append(capturedChunks, chunk)
               /\ capturedLen' = Count(capturedLen.n + chunk.length)
          ELSE /\ capturedLen' = TooLarge
               /\ UNCHANGED capturedChunks
  /\ capNext' = capNext + 1
  /\ UNCHANGED <<capBody, capStored, capPc>>
  /\ UNCHANGED <<coreVars, secVars, cssVars, rwVars, thrVars>>

\* reader.on('end', ...): res.end(), then the cache write
End ==
  /\ capPc = "streaming" /\ capNext > Len(capBody)
  /\ capSink' = [capSink EXCEPT !.ended = TRUE]
  /\ capStored' = IF ~capturedLen.big /\ capturedLen.n > 0
                    THEN [stored |-> TRUE, body |-> capturedChunks]
                    ELSE NotStored
  /\ capPc' = "ended"
  /\ UNCHANGED <<capBody, capNext, capturedLen, capturedChunks>>
  /\ UNCHANGED <<coreVars, secVars, cssVars, rwVars, thrVars>>

\* reader.on('error', ...): res.end(), nothing is cached
BodyError ==
  /\ capPc = "streaming" /\ capNext <= Len(capBody)
  /\ capSink' = [capSink EXCEPT !.ended = TRUE]
  /\ capPc' = "failed"
  /\ UNCHANGED <<capBody, capNext, capturedLen, capturedChunks, capStored>>
  /\ UNCHANGED <<coreVars, secVars, cssVars, rwVars, thrVars>>

CaptureNext ==
  \/ \E body \in Bodies : CaptureStart(body)
  \/ Data
  \/ End
  \/ BodyError

(***************************************************************************)
(* THROTTLER                                                               *)
(***************************************************************************)

maxRequests == 2       \* defaultConfig.maxRequests (30 in the source), scaled down
MaxThrTicks == 7       \* the clock runs to MaxThrTicks * windowMs
MaxThrRequests == 5    \* requests in one run
windowMs == 60000
blockDuration == 300000

ThrottleKeys == {"ip1", "ip2"}

\* RATE_LIMIT_MAP.get(ip) of a key without entry; an entry has count >= 1.
\* blockUntil 0 stands for null.
NoCounter == [count |-> 0, start |-> 0, blockUntil |-> 0]

\* no key is ever blocked
NeverBlocked(entry, t) == FALSE
isBlocked(entry, t) ==
  entry # NoCounter /\ entry.blockUntil # 0 /\ entry.blockUntil > t

incrementCounter(entry, t) ==
  LET counted == IF entry = NoCounter
                   THEN [count |-> 1, start |-> t, blockUntil |-> 0]
                   ELSE [entry EXCEPT !.count = @ + 1]
      \* reset window
      windowed == IF t - counted.start > windowMs
                    THEN [counted EXCEPT !.count = 1, !.start = t]
                    ELSE counted
  IN \* block if exceeded
     IF windowed.count > maxRequests
       THEN [windowed EXCEPT !.blockUntil = t + blockDuration]
       ELSE windowed

NoRequest == [key |-> "", status |-> 0, next |-> FALSE]

ThrottleInit ==
  /\ rateMap = [k \in ThrottleKeys |-> NoCounter]
  /\ thrLast = NoRequest
  /\ reqTimes = [k \in ThrottleKeys |-> <<>>]
  /\ thrReqs = 0

\* the middleware is run on a request of key: 429 and nothing else for a
\* blocked key, else the request is counted and next() is called
ThrottleRequest(key) ==
  /\ key \in ThrottleKeys
  /\ thrReqs < MaxThrRequests /\ thrReqs' = thrReqs + 1
  /\ IF isBlocked(rateMap[key], now)
       THEN /\ thrLast' = [key |-> key, status |-> 429, next |-> FALSE]
            /\ UNCHANGED <<rateMap, reqTimes>>
       ELSE /\ rateMap' = [rateMap EXCEPT ![key] = incrementCounter(@, now)]
            /\ thrLast' = [key |-> key, status |-> 0, next |-> TRUE]
            /\ reqTimes' = [reqTimes EXCEPT ![key] = Append(@, now)]
  /\ UNCHANGED <<now, cacheVars, fetchVars, valVars, pipeVars>>
  /\ UNCHANGED <<secVars, cssVars, rwVars, capVars>>

ThrottleTick ==
  /\ now + windowMs <= MaxThrTicks * windowMs
  /\ now' = now + windowMs
  /\ thrLast' = NoRequest
  /\ UNCHANGED <<rateMap, reqTimes, thrReqs>>
  /\ UNCHANGED <<cacheVars, fetchVars, valVars, pipeVars>>
  /\ UNCHANGED <<secVars, cssVars, rwVars, capVars>>

ThrottleNext ==
  \/ \E key \in ThrottleKeys : ThrottleRequest(key)
  \/ ThrottleTick

AuxInit == SecInit /\ CssInit /\ RewriteInit /\ CaptureInit /\ ThrottleInit

Init ==
  now = 0 /\ CacheInit /\ FetchInit /\ ValInit /\ PipeInit /\ AuxInit

\* the target to validate is any of UrlInputs
InitValidate ==
  /\ now = 0 /\ CacheInit /\ FetchInit /\ PipeInit /\ AuxInit
  /\ vUrl \in UrlInputs \cup QueryInputs
  /\ vRes = [fn |-> "none", pass |-> FALSE, reason |-> "", url |-> NoUrl]

SpecCache == Init /\ [][CacheNext]_vars
SpecCacheSeq == Init /\ [][SeqCacheNext]_vars
SpecFetch == Init /\ [][FetchNext]_vars
SpecValidate == InitValidate /\ [][ValNext]_vars
SpecPipeline == Init /\ [][PipeNext]_vars
SpecSecurity == Init /\ [][SecNext]_vars
SpecRewrite == Init /\ [][RewriteNext]_vars
SpecCapture == Init /\ [][CaptureNext]_vars
\* the event loop runs every continuation that is ready
\* a cyclic pair of stylesheets and a fetcher that always succeeds
CssCycleNext ==
  \/ \E pa, pb \in 0..MaxPad, ta, tb \in 0..1 : InlineCycle(pa, ta, pb, tb)
  \/ Exec
  \/ FetchDone
SpecCssCycle == Init /\ [][CssCycleNext]_vars /\ WF_vars(CssCycleNext)
\* one stylesheet with any number of imports, each fetch succeeding or failing
CssListNext ==
  \/ \E css \in CssTexts, lb, lc \in 0..1 : InlineList(css, lb, lc)
  \/ Exec
  \/ FetchDone
  \/ FetchFail
SpecCssList == Init /\ [][CssListNext]_vars
SpecThrottle == Init /\ [][ThrottleNext]_vars
SpecCss == Init /\ [][CssNext]_vars /\ WF_vars(CssNext)

(***************************************************************************)
(* CLAIMS ABOUT THE RESOURCE CACHE                                         *)
(***************************************************************************)

\* the keys of memory by their last successful read or write, oldest first
MemoryByRecency == SelectSeq(recency, LAMBDA k : MapHas(cacheMap, k))

\* C1: cache round-trip with TTL. A get(k) issued right after set(k, v, ttl),
\* for a value the memory ceiling admits, returns v; and a get(k) issued after
\* the ttl of the last set of k has run out (that set having stored such a
\* value, and k not having been deleted since) returns absent, whatever sweeps,
\* evictions or disk writes happened in between.
C1_RoundTripWithTtl ==
  [][ /\ \A k \in Keys :
           ( /\ GetStart(k)
             /\ ret.op = "set" /\ ret.key = k
             /\ estimateSize(ret.val) <= DEFAULT_MAX_BYTES )
           => (ret'.op = "get" /\ ret'.val = ret.val)
      /\ ( /\ ret'.op = "get" /\ ret'.stale
            /\ estimateSize(Plain(setLog[ret'.key].v)) <= DEFAULT_MAX_BYTES
            /\ ~deleted[ret'.key] )
         => ret'.val = Absent
    ]_vars

\* C6: disk warm-on-read. A get(k) that finds k absent from memory and loads
\* the file an earlier set(k, v, ttl) wrote returns exactly v and leaves v as
\* the value of k in memory; a get(k) that finds no file returns absent.
C6_WarmReadReturnsStoredValue ==
  [][ \A s \in 1..MaxSlots :
        (GetResume(s) /\ ~MapHas(cacheMap, calls[s].key)) =>
          IF calls[s].data = Absent
            THEN ret'.val = Absent
            ELSE /\ ret'.val = Plain(calls[s].data.v)
                 /\ MapHas(cacheMap', calls[s].key)
                      => MapGet(cacheMap', calls[s].key).value = Plain(calls[s].data.v)
    ]_vars

\* C7: LRU eviction order. Inserting a new key into a cache that holds MaxItems
\* entries (the byte ceiling not being reached) evicts exactly the key least
\* recently read or written, and the key most recently read or written stays.
C7_EvictsLeastRecentlyUsed ==
  [][ \A k \in Keys, v \in Values, t \in TTLs :
        ( /\ Set(k, v, t)
          /\ ~MapHas(cacheMap, k)
          /\ Len(cacheMap) = MaxItems
          /\ currentBytes + estimateSize(Plain(v)) <= DEFAULT_MAX_BYTES )
        => /\ MapKeys(cacheMap') =
                (MapKeys(cacheMap) \ {Head(MemoryByRecency)}) \cup {k}
           /\ MaxItems >= 2 =>
                MemoryByRecency[Len(MemoryByRecency)] \in MapKeys(cacheMap')
    ]_vars

\* C8: delete removes from memory and disk. Once del(k) or clear() has
\* completed and until the next set(k), k is neither in the memory map nor in
\* the disk store, and a get(k) returns absent.
C8_DeleteRemovesMemoryAndDisk ==
  /\ \A k \in Keys :
       deleted[k] => (~MapHas(cacheMap, k) /\ disk[k] = NoFile)
  /\ (ret.op = "get" /\ ret.key \in Keys /\ deleted[ret.key]) => ret.val = Absent

RECURSIVE SumSizes(_)
SumSizes(m) == IF m = <<>> THEN 0 ELSE Head(m).size + SumSizes(Tail(m))
\* C19: byte accounting under concurrency. Between the synchronous steps of
\* any interleaving of get, set, delete and sweep calls, gets suspended on a
\* disk read included, the tracked byte total is the sum of the sizes of the
\* entries in the memory map.
C19_BytesMatchEntries == currentBytes = SumSizes(cacheMap)

\* C20: memory holds the freshest version. The value in memory for a key is
\* the one the most recent set of that key gave (plain or as the disk copy
\* of that very set, for a value the memory ceiling admits); in particular a
\* get that was suspended on a disk read does not put an older disk copy
\* over it.
C20_MemoryHoldsLatestSet ==
  \A k \in Keys :
    ( /\ MapHas(cacheMap, k) /\ setLog[k] # NoSet
      /\ estimateSize(Plain(setLog[k].v)) <= DEFAULT_MAX_BYTES )
      => MapGet(cacheMap, k).value.v = setLog[k].v

\* C21: cache bounds. Between the steps of the cache (so after every set,
\* every disk-warming get and every sweep) the memory map holds at most
\* MaxItems entries and the tracked byte total is at most DEFAULT_MAX_BYTES.
C21_CacheBounds ==
  Len(cacheMap) <= MaxItems /\ currentBytes <= DEFAULT_MAX_BYTES
\* a set has just filled the map to its ceiling by evicting a key that was
\* set before and neither deleted nor expired
C21_Witness ==
  /\ ret.op = "set" /\ Len(cacheMap) = MaxItems /\ now = 0
  /\ \E k \in Keys :
       /\ setLog[k] # NoSet /\ ~deleted[k] /\ ~MapHas(cacheMap, k)
       /\ estimateSize(Plain(setLog[k].v)) <= DEFAULT_MAX_BYTES


\* a get of k is suspended on removeFromDisk in slot s
UnlinkingGet(s, k) ==
  /\ calls[s] # Idle
  /\ calls[s].op = "get" /\ calls[s].key = k /\ calls[s].stage = "unlinking"

\* C24: lazy expiry on read. A get(k) that finds k in memory with an expiresAt
\* in the past takes the entry out of the map, takes its size off the byte
\* total, leaves every other entry as it was and in its place, and waits for
\* the unlink of the disk copy; when the unlink has run, the file of k is
\* gone, memory is left alone and the get returns absent.
C24_LazyExpiryOnRead ==
  [][\A k \in Keys :
       /\ ( /\ MapHas(cacheMap, k) /\ Expired(MapGet(cacheMap, k), now)
            /\ ops' = ops + 1 /\ ret'.key = k
            /\ ret'.op \in {"get", "getWait"} )
          => /\ cacheMap' = SelectSeq(cacheMap, LAMBDA e : e.key # k)
             /\ currentBytes' = currentBytes - MapGet(cacheMap, k).size
             /\ ret'.op = "getWait" /\ ret'.val = Absent
             /\ \E s \in 1..MaxSlots : UnlinkingGet(s, k)'
       /\ \A s \in 1..MaxSlots :
            (UnlinkingGet(s, k) /\ calls'[s] # calls[s])
              => /\ calls'[s] = Idle \/ calls'[s] = [calls[s] EXCEPT !.stale = FALSE]
                 /\ calls'[s] = Idle =>
                      /\ disk'[k] = NoFile
                      /\ ret'.op = "get" /\ ret'.key = k /\ ret'.val = Absent
                      /\ cacheMap' = cacheMap /\ currentBytes' = currentBytes
    ]_vars
\* the get of an expired entry has returned while another entry is in memory
C24_Witness ==
  /\ ret.op = "get" /\ ret.via = "mem" /\ ret.val = Absent
  /\ cacheMap # <<>>


\* the entries of m the sweep at time t finds past their expiresAt, and the
\* others (expiresAt 0 stands for null: no expiry)
PastExpiry(m, t) == SelectSeq(m, LAMBDA e : e.expiresAt # 0 /\ e.expiresAt < t)
NotPastExpiry(m, t) ==
  SelectSeq(m, LAMBDA e : ~(e.expiresAt # 0 /\ e.expiresAt < t))

\* C25: eager expiry by sweep. A run of the sweep leaves in memory exactly
\* the entries that are not past their expiresAt at the time of the sweep,
\* in their order, whether or not any of them was ever read, and takes the
\* sizes of the entries it removed off the byte total; the ceilings, which
\* held before the sweep, force no eviction.
C25_SweepRemovesExpired ==
  [][nextSweep' # nextSweep =>
       /\ cacheMap' = NotPastExpiry(cacheMap, now)
       /\ currentBytes' = currentBytes - SumSizes(PastExpiry(cacheMap, now))
    ]_vars
\* a sweep has emptied memory of an entry that was set and never read or
\* deleted: the set is the only call that was made
C25_Witness ==
  /\ nextSweep # DEFAULT_SWEEP_INTERVAL /\ cacheMap = <<>> /\ ops = 1
  /\ \E k \in Keys : setLog[k] # NoSet /\ setLog[k].v = "a" /\ ~deleted[k]


\* C28: an entry warmed from disk still expires. A get(k) that is answered
\* from memory once the time-to-live given to the last set of k has elapsed
\* returns absent, also when the entry in memory is one that an earlier
\* get(k) loaded from the disk copy that set wrote.
C28_WarmedEntryExpires ==
  (ret.op = "get" /\ ret.via = "mem" /\ ret.stale) => ret.val = Absent

(***************************************************************************)
(* CLAIMS ABOUT THE FETCH ORCHESTRATOR                                     *)
(***************************************************************************)

Is4xx(o) == o.kind = "status" /\ o.status >= 400 /\ o.status <= 499
Is5xx(o) == o.kind = "status" /\ o.status >= 500 /\ o.status <= 599
\* an attempt that failed in a way the retry policy covers: a 5xx answer, a
\* connection error, a timeout, a body that failed to arrive
Transient(o) == Is5xx(o) \/ o.kind = "error" \/ o = BrokenBody
\* the error an attempt leaves in the catch block
ErrorOf(o) == IF o = BrokenBody THEN Err("body") ELSE o
\* the call has ended in a failure
Failed ==
  /\ fpc = "done"
  /\ IF fMode = "text" THEN result.kind = "rejected"
                       ELSE sink.ended /\ sink.status >= 400

\* C2: no retry on a 4xx answer. An attempt of fetchText or streamToResponse
\* that received a 4xx status is the last attempt of the call, and the call
\* has ended with a failure, whatever opts.retries is.
C2_NoRetryAfter4xx ==
  \A i \in 1..Len(log) :
    Is4xx(log[i]) => (i = Len(log) /\ Failed)

\* the upstream of C5: 503 to the first two attempts, 200 to the third
Scenario5 == <<Status(503), Status(503), Status(200)>>
FollowsScenario5(l) ==
  /\ Len(l) >= 1
  /\ \A i \in 1..Len(l) : i <= 3 => l[i] \in {Scenario5[i], Pending}

\* C5: retry with linear backoff. Against an upstream that answers 503, 503,
\* 200, fetchText with retries = 2 makes no fourth attempt, starts retry
\* number n only when at least BACKOFF_BASE * n ms have passed since attempt n
\* failed, and ends resolved with the upstream's text after exactly 3 attempts.
C5_LinearBackoff ==
  [][ (fMode' = "text" /\ retries' = 2 /\ FollowsScenario5(log')) =>
        /\ Len(log') <= 3
        /\ (Len(log') > Len(log) /\ Len(log) >= 1) =>
              now' >= timer.setAt + BACKOFF_BASE * Len(log)
        /\ fpc' = "done" =>
              /\ result' = Resolved("upstream")
              /\ attempt' = 3 /\ log' = Scenario5
        /\ log' = Scenario5 => fpc' = "done"
    ]_vars

C5_Witness ==
  /\ fMode = "text" /\ retries = 2 /\ log = Scenario5
  /\ fpc = "done" /\ result = Resolved("upstream") /\ attempt = 3
  /\ now >= BACKOFF_BASE * 3

\* C9: exhaustion in streaming mode. When each of the retries + 1 attempts of
\* streamToResponse failed with a 5xx answer, a connection error or a
\* timeout, the call has returned and the sink got exactly the status 502.
C9_StreamExhaustionIs502 ==
  ( /\ fMode = "stream" /\ fpc = "done"
    /\ Len(log) = retries + 1
    /\ \A i \in 1..Len(log) : Is5xx(log[i]) \/ log[i].kind = "error" )
  => (result = ReturnedVoid /\ sink.ended /\ sink.status = 502)

\* C10: bounded attempts and final error. A call makes at most retries + 1
\* attempts (3 by default); every attempt that was followed by another one
\* had failed with a 5xx answer or a transient error; and when fetchText has
\* ended after retries + 1 failed attempts it rejected with the error of the
\* last one.
C10_BoundedAttemptsLastError ==
  /\ DEFAULT_RETRIES + 1 = 3
  /\ fpc # "idle" => Len(log) <= retries + 1
  /\ \A i \in 1..(Len(log) - 1) : Transient(log[i])
  /\ ( /\ fMode = "text" /\ fpc = "done" /\ Len(log) = retries + 1
       /\ ~IsOk(log[Len(log)]) \/ log[Len(log)] = BrokenBody )
     => result = Rejected(ErrorOf(log[Len(log)]))

(***************************************************************************)
(* CLAIMS ABOUT VALIDATION AND THE REQUEST HANDLERS                        *)
(***************************************************************************)

\* the hosts of C3: 127.0.0.1, localhost, and the IPv6 loopback as a URL
\* writes it
\* C11: cache-first. Once a call that may use the cache has sent a request
\* upstream and has not stored anything yet, the cache held no entry under
\* the key of its mode; a call answered from the cache was answered with an
\* entry stored by its own mode; a call with useCache = false makes no cache
\* call at all, and every cache call of a call uses the key of its mode.
C11_CacheFirst ==
  /\ ( /\ useCache /\ Len(log) > 0
       /\ \A i \in 1..Len(cacheLog) : cacheLog[i].op # "set" )
     => fCache[cacheKeyFor(fMode)] = NoEntry
  /\ ( /\ fpc = "done" /\ Len(log) = 0
       /\ result \in {Resolved("cache"), ReturnedVoid} /\ sink.status # 400 )
     => fCache[cacheKeyFor(fMode)].by = fMode
  /\ (fpc # "idle" /\ ~useCache) => cacheLog = <<>>
  /\ \A i \in 1..Len(cacheLog) : cacheLog[i].key = cacheKeyFor(fMode)

\* C12: no half-written response. A streamToResponse call that has finished
\* its work on a response it had started to write has ended that response,
\* also after an error of the upstream body, with and without the cache.
C12_NoHalfWrittenResponse ==
  (fMode = "stream" /\ fpc = "done" /\ sink.status # 0) => sink.ended

\* C13: header allow-list. Every header on the caller's response, on the
\* network path and on the cache-hit path, is one of content-type,
\* content-length, last-modified, etag, cache-control.
C13_HeaderAllowList == sink.headers \subseteq headerWhitelist
\* a response streamed from an upstream that sent a header outside the list
C13_WitnessNetwork ==
  /\ fpc = "done" /\ sink.body = "complete"
  /\ ~(upHeaders \subseteq headerWhitelist) /\ sink.headers # {}
\* a cache hit that set stored headers
C13_WitnessCacheHit ==
  sink.body = "cached body" /\ sink.headers # {}

\* the RFC1918 ranges, the loopback range and the link-local range
InRange(ip, a, lo, hi) ==
  ip.family = 4 /\ ip.octets[1] = a /\ ip.octets[2] >= lo /\ ip.octets[2] <= hi
PrivateAddress(ip) ==
  \/ InRange(ip, 10, 0, 255)
  \/ InRange(ip, 172, 16, 31)
  \/ InRange(ip, 192, 168, 168)
  \/ InRange(ip, 127, 0, 255)
  \/ InRange(ip, 169, 254, 254)
ResolvesPrivate ==
  sDns.ok /\ \E i \in 1..Len(sDns.addrs) : PrivateAddress(sDns.addrs[i])

\* C14: DNS-based private-address rejection. A finished checkHostAllowed
\* call for a hostname that resolves to at least one address in an RFC1918
\* range, the loopback range or the link-local range has returned false.
C14_PrivateAddressRejected ==
  (spc = "done" /\ ResolvesPrivate) => sRet = FALSE

\* C15: injection-parameter stripping. In the URL that sanitizeURL returns,
\* whatever the number and the order of the query parameters of its input,
\* no parameter remains whose value contains <, >, script or javascript:
\* in any letter case.
C15_NoDangerousParameterLeft ==
  (vRes.fn = "sanitizeURL" /\ vRes.pass)
    => \A i \in 1..Len(vRes.url.query) : ~Dangerous(vRes.url.query[i].value)

\* C16: CSS import inlining terminates. On the chain a imports b, b imports
\* c, c imports nothing, inlineImports returns, and it has called the
\* fetcher at most twice when every fetch succeeded.
C16_InliningTerminates ==
  /\ <>(cssPc = "returned")
  /\ [](~cssFailed => cssFetches <= 2)
\* the call has returned after both imports were fetched
C16_Witness ==
  cssPc = "returned" /\ ~cssFailed /\ cssFetches = 2

\* C26: cycle policy. On the cyclic chain a imports b, b imports a, with a
\* fetcher that always succeeds, inlineImports never returns and goes on
\* calling the fetcher: every run reaches any number of fetches (here the
\* bound on fetches, where the model stops).
C26_CycleNeverReturns ==
  /\ [](cssPc # "returned")
  /\ <>(cssFetches = MaxCssFetches)
\* the fetcher has been called as often as the bound allows, the outermost
\* call still running, more than one call deep
C26_Witness ==
  cssPc = "running" /\ cssFetches = MaxCssFetches /\ ~cssFailed
  /\ cssSheets["b"] # <<>> /\ cssSheets["c"] = <<>>

\* C29: every import is processed. When inlineImports returns, what it
\* returns holds no import statement, however many imports the input has,
\* whatever the lengths of the fetched stylesheets (the empty one included)
\* and whichever of the fetches fail.
C29_NoImportRemains ==
  cssPc = "returned" => \A i \in 1..Len(cssOut) : ~IsImport(cssOut[i])

\* the tag name in lower case
LowerTag(tag) ==
  IF \E i \in 1..Len(TagNames) : UpperTagNames[i] = tag
    THEN TagNames[CHOOSE i \in 1..Len(TagNames) : UpperTagNames[i] = tag]
    ELSE tag
\* C17: proxy-prefix versus resource-prefix routing. For a tag of any
\* letter case whose URL resolves to http(s): the src of script, iframe,
\* embed and object and the href of a link that is no stylesheet go to the
\* proxy prefix; the src of img, audio, video and source and the href of a
\* rel=stylesheet link go to the resource prefix.
C17_PrefixRouting ==
  (rwOut.fn = "rewriteHtml" /\ ResolvesToHttp(rwIn.tag.url)) =>
    LET t == rwIn.tag
        name == LowerTag(t.tag)
    IN  /\ (t.attr = "src" /\ name \in {"script", "iframe", "embed", "object"})
             => rwOut.prefix = "proxy"
        /\ (t.attr = "src" /\ name \in {"img", "audio", "video", "source"})
             => rwOut.prefix = "resource"
        /\ (t.attr = "href" /\ name = "link")
             => rwOut.prefix = IF t.rel = "stylesheet" THEN "resource" ELSE "proxy"

\* what rewriteCss owes for one declaration
ExpectedDecl(d) ==
  IF d = Valid("x") THEN <<Rewritten(<<Tok("name", "x")>>), Sep>>
  ELSE IF d = Valid("data:") THEN <<Kept(<<Tok("name", "data:")>>), Sep>>
  ELSE d
RECURSIVE ExpectedCss(_)
ExpectedCss(ds) ==
  IF ds = <<>> THEN <<>> ELSE ExpectedDecl(Head(ds)) \o ExpectedCss(Tail(ds))
\* C18: graceful degradation of the CSS rewriter. For a text with a broken
\* url( construct followed by valid sibling declarations, rewriteCss
\* returns the text with the broken fragment unchanged and every valid
\* url(...) rewritten to the resource prefix.
C18_BrokenUrlLeftAlone ==
  ( /\ rwOut.fn = "rewriteCss"
    /\ \E i \in 1..Len(rwIn.decls) :
         /\ rwIn.decls[i] = Broken("y")
         /\ \E j \in (i + 1)..Len(rwIn.decls) : rwIn.decls[j] # Broken("y") )
  => rwOut.css = ExpectedCss(rwIn.decls)

\* C22: per-attempt timeout. An attempt that is past its deadline ends in no
\* other way than by its cancellation; the cancelled attempt is logged as
\* failed, and it is followed by the backoff sleep when attempts remain and
\* by the call's failure (the rejection of fetchText, the 502 of
\* streamToResponse) when none does.
C22_AttemptBoundedByTimeout ==
  [][ ( /\ fpc \in {"inflight", "streaming"}
        /\ now >= deadline
        /\ fpc' # fpc )
      => /\ log'[attempt] = Err("abort")
         /\ IF attempt <= retries
              THEN fpc' = "sleeping" /\ timer'.ms = BackoffMs(attempt)
              ELSE /\ fpc' = "done"
                   /\ IF fMode = "text"
                        THEN result' = Rejected(Err("abort"))
                        ELSE sink'.status = 502 /\ sink'.ended
    ]_vars

RECURSIVE TotalLength(_)
TotalLength(body) ==
  IF body = <<>> THEN 0 ELSE Head(body) + TotalLength(Tail(body))
WholeBody == [i \in 1..Len(capBody) |-> Chunk(capBody, i)]
\* every chunk that arrived was forwarded, in arrival order
ForwardedInOrder == capSink.chunks = SubSeq(WholeBody, 1, capNext - 1)
\* C23 as claimed: capped capture while streaming. Every chunk is forwarded
\* in arrival order; a response over the cap leaves no cache entry; a
\* response within the cap is cached with its complete body.
C23_CappedCapture ==
  /\ capPc # "idle" => ForwardedInOrder
  /\ capPc = "ended" =>
       IF TotalLength(capBody) > MAX_CAPTURE
         THEN capStored = NotStored
         ELSE capStored = [stored |-> TRUE, body |-> WholeBody]
\* C23 as amended: the same, the last part for a response within the cap
\* that has at least one byte; a response without a body is not cached.
C23_CappedCaptureOfNonEmpty ==
  /\ capPc # "idle" => ForwardedInOrder
  /\ capPc = "ended" =>
       IF TotalLength(capBody) > MAX_CAPTURE \/ TotalLength(capBody) = 0
         THEN capStored = NotStored
         ELSE capStored = [stored |-> TRUE, body |-> WholeBody]
\* a body went over the cap and a chunk that would fit on its own came after
C23_Witness ==
  /\ capPc = "ended" /\ TotalLength(capBody) > MAX_CAPTURE
  /\ Len(capBody) = MaxChunks /\ capBody[1] > MAX_CAPTURE
  /\ capBody[MaxChunks] < MAX_CAPTURE

LoopbackHosts == {h_127_0_0_1, h_localhost, h_v6loopback}
HttpExampleCom ==
  [scheme |-> "http", host |-> h_example_com, port |-> "", path |-> "",
   query |-> <<>>]

\* C27: a throttled request does no proxy work. Once the throttler has found
\* the key blocked and answered 429, the proxy middleware issues no upstream
\* fetch for the request and calls send on its response no second time.
C27_ThrottledDoesNoWork ==
  pThrottled => ~pFetched /\ pSends <= 1

\* more than maxRequests of the requests counted for key came within one
\* window of windowMs
BurstOf(key) ==
  \E i, j \in 1..Len(reqTimes[key]) :
    /\ j - i + 1 > maxRequests
    /\ reqTimes[key][j] - reqTimes[key][i] <= windowMs
\* C30: the throttler's blocking rule. A key is blocked only when more than
\* maxRequests of its requests came within one window of windowMs; a request
\* of a blocked key is answered 429, is not counted and is not passed to
\* next(); a request of a key whose block has run out is passed to next()
\* without a 429.
C30_BlockingRule ==
  [][\A key \in ThrottleKeys :
       /\ (rateMap'[key].blockUntil # 0 /\ rateMap'[key].blockUntil > now')
            => BurstOf(key)'
       /\ (thrReqs' = thrReqs + 1 /\ thrLast'.key = key) =>
            IF rateMap[key].blockUntil # 0 /\ rateMap[key].blockUntil > now
              THEN /\ thrLast'.status = 429 /\ ~thrLast'.next
                   /\ rateMap' = rateMap /\ reqTimes' = reqTimes
              ELSE /\ thrLast'.status = 0 /\ thrLast'.next
                   /\ Len(reqTimes'[key]) = Len(reqTimes[key]) + 1
    ]_vars
\* a key was blocked, got a 429 while blocked, and its request after the
\* block had run out has just been passed on
C30_Witness ==
  \E key \in ThrottleKeys :
    /\ thrLast.key = key /\ thrLast.next /\ thrReqs = MaxThrRequests
    /\ rateMap[key].blockUntil # 0 /\ rateMap[key].blockUntil <= now
    /\ Len(reqTimes[key]) = thrReqs - 1
    /\ \A other \in ThrottleKeys \ {key} : reqTimes[other] = <<>>

\* C3: SSRF guard. Whichever of validateUrl, isBlockedHostname and sanitizeURL
\* is applied, an http(s) target whose host is 127.0.0.1, localhost or [::1]
\* does not pass (validateUrl names the host as blacklisted), and
\* http://example.com passes.
C3_SsrfGuard ==
  vRes.fn # "none" =>
    /\ (vUrl.scheme # "" /\ vUrl.host \in LoopbackHosts) =>
         /\ ~vRes.pass
         /\ vRes.fn = "validateUrl" => vRes.reason = "Host is blacklisted"
    /\ vUrl = HttpExampleCom => vRes.pass

\* C4: validation precedes fetch. On /proxy and on /resource alike, an
\* upstream request for the target is issued only once validation has let
\* the target pass in this request: a target validateUrl rejects or
\* isLocalAddress flags is never requested.
C4_ValidationPrecedesFetch ==
  UpstreamRequested =>
    /\ pValidated
    /\ validateUrl(pTarget).valid
    /\ ~isLocalAddress(Hostname(pTarget))
====
